---- MODULE Spec2Model ----
(***************************************************************************)
(* Model of the metadata canonicalizer: the recursive XML-object sorter    *)
(* (common/xml/sorter.ts), the XML helpers (common/xml/xml-helpers.ts) and *)
(* the per-file pipeline of SfMetadataAdjuster (sf-metadata-adjuster.ts),  *)
(* together with the adjust command (file selection, backup, the loop over *)
(* the files, the --git-depth selection of changed files), the detect git  *)
(* conflicts command, ensureDirectory (common/helper/filesystem.ts), the   *)
(* integrity scans of parsed metadata and of raw content                   *)
(* (common/metadata/metadata-integrity.ts).                                *)
(*                                                                         *)
(* A JavaScript string is a sequence of one-character strings; strings are *)
(* ordered as JavaScript orders them, by code unit.  A JavaScript value is *)
(* a record [k |-> kind, v |-> payload].                                   *)
(***************************************************************************)
EXTENDS Integers, Sequences, FiniteSets, TLC

VARIABLES
    op,          \* sorter: the exported function that was called ("none" before the call)
    obj,         \* sorter: the first argument of the call
    argKey,      \* sorter: the key argument of the call (parentKey / arrayKey)
    ret,         \* sorter: the value the call returned
    argAfter,    \* sorter: the first argument as the call left it (Array.prototype.sort sorts in place)
    xmlString,   \* entities: the text given to prefixXmlEntities
    prefixed,    \* entities: what prefixXmlEntities returned (undefined before the call)
    restored,    \* entities: what restoreXmlEntities returned for it (undefined before the call)
    rootElement,    \* helpers: what extractRootElementName returned for xmlString (undefined before the call)
    fileXml,     \* adjuster: the content of the metadata file
    originalXml, \* adjuster: what the last processFile read from the file
    sortedXml,   \* adjuster: what the last processFile built, or the error it caught
    stats,       \* adjuster: this.stats, the counters of processFile
    rebuilt,     \* helpers: what buildMetadataXml returned for the parsed file content
    argv,        \* command: the flag values given to the command
    adjuster,    \* command: the SfMetadataAdjuster constructed, or the error its constructor threw
    disk,        \* file system: the content of each path (undefined: no such file)
    tree,        \* file system: the content of each path when the command started
    call,        \* command: the method called on the adjuster, with its files argument
    pc,          \* command: where process / processSpecificFiles is
    metadataFiles, \* command: the files selected for processing (metadataFiles / validFiles)
    fileIndex,   \* command: the position in metadataFiles of the next file to process
    io,          \* file system: the paths read, written and reported as failed so far
    targetDir,   \* detect git conflicts: the directory the command is given
    result,      \* detect git conflicts: the ConflictResult the command returns
    exitCode,    \* detect git conflicts: the exit code (undefined while the command has not run)
    metadata,    \* integrity: the parsed metadata given to findIntegrityIssuesInMetadata
    removedItems, \* integrity: the removed items the index is built from
    issues,      \* integrity: the issues returned (undefined before the call)
    git,         \* command: the repository the git commands of run() meet
    changedFiles, \* command: what getChangedMetadataFiles returned (undefined while it has not run)
    source,      \* integrity: the call to make on raw content: function, rawContent, filePath, ...
    onError,     \* filesystem: the error handler ensureDirectory is given
    outcome      \* filesystem: how ensureDirectory ended (undefined before the call)

sorterVars == <<op, obj, argKey, ret, argAfter>>
entityVars == <<xmlString, prefixed, restored, rootElement>>
adjusterVars == <<fileXml, originalXml, sortedXml, stats, rebuilt>>
processVars == <<argv, adjuster, disk, tree, call, pc, metadataFiles, fileIndex, io>>
conflictVars == <<targetDir, result, exitCode>>
integrityVars == <<metadata, removedItems, issues>>
runVars == <<git, changedFiles>>
ensureVars == <<onError, outcome>>
toolVars == <<targetDir, result, exitCode, metadata, removedItems, issues, git, changedFiles,
              source, onError, outcome>>
vars == <<op, obj, argKey, ret, argAfter, xmlString, prefixed, restored, rootElement,
          fileXml, originalXml, sortedXml, stats, rebuilt,
          argv, adjuster, disk, tree, call, pc, metadataFiles, fileIndex, io,
          targetDir, result, exitCode, metadata, removedItems, issues,
          git, changedFiles, source, onError, outcome>>

----------------------------------------------------------------------------
(* Characters and strings *)

\* The characters the model uses, in ascending code-unit (ASCII) order.
AsciiOrder ==
    << "\n", " ", "!", "\"", "$", "&", "'", ",", "-", ".", "/",
       "0", "1", "2", "3", "4", "5", "6", "7", "8", "9",
       ":", ";", "<", "=", ">", "?",
       "A", "B", "C", "D", "E", "F", "G", "H", "I", "J", "K", "L", "M",
       "N", "O", "P", "Q", "R", "S", "T", "U", "V", "W", "X", "Y", "Z",
       "[", "]", "_",
       "a", "b", "c", "d", "e", "f", "g", "h", "i", "j", "k", "l", "m",
       "n", "o", "p", "q", "r", "s", "t", "u", "v", "w", "x", "y", "z" >>

Chars == { AsciiOrder[i] : i \in DOMAIN AsciiOrder }

\* The rank of a character in code-unit order.
Code == [ c \in Chars |-> CHOOSE i \in DOMAIN AsciiOrder : AsciiOrder[i] = c ]

\* a < b, a > b on strings: -1, 1, or 0 when neither holds.
RECURSIVE StrCmp(_, _)
StrCmp(s, t) ==
    IF s = <<>> THEN (IF t = <<>> THEN 0 ELSE -1)
    ELSE IF t = <<>> THEN 1
    ELSE IF Code[Head(s)] < Code[Head(t)] THEN -1
    ELSE IF Code[Head(s)] > Code[Head(t)] THEN 1
    ELSE StrCmp(Tail(s), Tail(t))

\* String.prototype.includes
Includes(s, sub) ==
    \E i \in 1..(Len(s) - Len(sub) + 1) : SubSeq(s, i, i + Len(sub) - 1) = sub

\* The decimal digits of a non-negative integer (array and string index keys).
RECURSIVE Decimal(_)
Decimal(n) ==
    IF n < 10 THEN << AsciiOrder[Code["0"] + n] >>
    ELSE Decimal(n \div 10) \o << AsciiOrder[Code["0"] + (n % 10)] >>

----------------------------------------------------------------------------
(* JavaScript values *)

Null == [k |-> "null", v |-> <<>>]
Undefined == [k |-> "undefined", v |-> <<>>]
TypeError == [k |-> "throw", v |-> <<>>]
Str(s) == [k |-> "str", v |-> s]
Num(n) == [k |-> "num", v |-> <<n>>]
Bool(b) == [k |-> "bool", v |-> <<b>>]
Arr(items) == [k |-> "arr", v |-> items]
\* An object is its entries <<key, value>> in property (insertion) order.
Obj(entries) == [k |-> "obj", v |-> entries]

\* Object.keys(x): own enumerable keys in property order.
ObjectKeys(x) ==
    IF x.k = "obj" THEN [i \in 1..Len(x.v) |-> x.v[i][1]]
    ELSE IF x.k \in {"str", "arr"} THEN [i \in 1..Len(x.v) |-> Decimal(i - 1)]
    ELSE <<>>

\* The key of the i-th own property of x.
KeyAt(x, i) == IF x.k = "obj" THEN x.v[i][1] ELSE Decimal(i - 1)

\* The value of the i-th own property of x; undefined for i = 0 (no such property).
ValueAt(x, i) ==
    IF i = 0 THEN Undefined
    ELSE IF x.k = "obj" THEN x.v[i][2]
    ELSE IF x.k = "arr" THEN x.v[i]
    ELSE Str(<< x.v[i] >>)

Range(f) == { f[i] : i \in DOMAIN f }

FirstOrZero(S) == IF S = {} THEN 0 ELSE CHOOSE i \in S : \A j \in S : i <= j

\* x[key] for a non-null x.
Get(x, key) ==
    IF x.k \in {"obj", "arr", "str"}
    THEN ValueAt(x, FirstOrZero({ i \in 1..Len(x.v) : KeyAt(x, i) = key }))
    ELSE Undefined

\* x?.[0]
Index0(x) == IF x.k \in {"null", "undefined"} THEN Undefined ELSE Get(x, <<"0">>)

\* Boolean(x)
Truthy(x) ==
    CASE x.k \in {"null", "undefined"} -> FALSE
      [] x.k = "str" -> x.v # <<>>
      [] x.k = "num" -> x.v[1] # 0
      [] x.k = "bool" -> x.v[1]
      [] OTHER -> TRUE

\* x || ''
OrEmpty(x) == IF Truthy(x) THEN x ELSE Str(<<>>)

\* typeof x === 'object'
TypeofObject(x) == x.k \in {"obj", "arr", "null"}

ObjectObject == << "[", "o", "b", "j", "e", "c", "t", " ", "O", "b", "j", "e", "c", "t", "]" >>

\* The string a relational operator compares for a string, object or array operand.
RECURSIVE ToPrimitive(_)
ToPrimitive(x) ==
    IF x.k = "str" THEN x.v
    ELSE IF x.k = "arr" THEN
        IF x.v = <<>> THEN <<>>
        ELSE IF Len(x.v) = 1 THEN ToPrimitive(x.v[1])
        ELSE ToPrimitive(x.v[1]) \o <<",">> \o ToPrimitive(Arr(Tail(x.v)))
    ELSE IF x.k = "obj" THEN ObjectObject
    ELSE <<>>

\* if (a < b) return -1; if (a > b) return 1; return 0;
CompareValues(a, b) == StrCmp(ToPrimitive(a), ToPrimitive(b))

----------------------------------------------------------------------------
(* The names the sorter compares keys with *)

\* The names the sorter, the builder and the inputs use, as strings.
Lit ==
    [ apexClass |-> << "a", "p", "e", "x", "C", "l", "a", "s", "s" >>,
      classAccesses |-> << "c", "l", "a", "s", "s", "A", "c", "c", "e", "s", "s", "e", "s" >>,
      fieldPermissions |-> << "f", "i", "e", "l", "d", "P", "e", "r", "m", "i", "s", "s", "i", "o", "n", "s" >>,
      field |-> << "f", "i", "e", "l", "d" >>,
      customPermissions |-> << "c", "u", "s", "t", "o", "m", "P", "e", "r", "m", "i", "s", "s", "i", "o", "n", "s" >>,
      customMetadataTypeAccesses |-> << "c", "u", "s", "t", "o", "m", "M", "e", "t", "a", "d", "a", "t", "a", "T", "y", "p", "e", "A", "c", "c", "e", "s", "s", "e", "s" >>,
      externalCredentialPrincipalAccesses |-> << "e", "x", "t", "e", "r", "n", "a", "l", "C", "r", "e", "d", "e", "n", "t", "i", "a", "l", "P", "r", "i", "n", "c", "i", "p", "a", "l", "A", "c", "c", "e", "s", "s", "e", "s" >>,
      objectPermissions |-> << "o", "b", "j", "e", "c", "t", "P", "e", "r", "m", "i", "s", "s", "i", "o", "n", "s" >>,
      recordTypeVisibilities |-> << "r", "e", "c", "o", "r", "d", "T", "y", "p", "e", "V", "i", "s", "i", "b", "i", "l", "i", "t", "i", "e", "s" >>,
      tabVisibilities |-> << "t", "a", "b", "V", "i", "s", "i", "b", "i", "l", "i", "t", "i", "e", "s" >>,
      states |-> << "s", "t", "a", "t", "e", "s" >>,
      name |-> << "n", "a", "m", "e" >>,
      object |-> << "o", "b", "j", "e", "c", "t" >>,
      recordType |-> << "r", "e", "c", "o", "r", "d", "T", "y", "p", "e" >>,
      tab |-> << "t", "a", "b" >>,
      isoCode |-> << "i", "s", "o", "C", "o", "d", "e" >>,
      fullName |-> << "f", "u", "l", "l", "N", "a", "m", "e" >>,
      Name |-> << "N", "a", "m", "e" >>,
      root |-> << "r", "o", "o", "t" >>,
      enabled |-> << "e", "n", "a", "b", "l", "e", "d" >>,
      dispositions |-> << "d", "i", "s", "p", "o", "s", "i", "t", "i", "o", "n", "s" >>,
      items |-> << "i", "t", "e", "m", "s" >>,
      parent |-> << "p", "a", "r", "e", "n", "t" >>,
      zebra |-> << "z", "e", "b", "r", "a" >>,
      Zebra |-> << "Z", "e", "b", "r", "a" >>,
      apple |-> << "a", "p", "p", "l", "e" >>,
      Apple |-> << "A", "p", "p", "l", "e" >>,
      value |-> << "v", "a", "l", "u", "e" >> ]

----------------------------------------------------------------------------
(* Array.prototype.sort as V8 runs it for arrays shorter than 64 elements: *)
(* undefined elements go last, the leading run is found (and reversed when *)
(* strictly descending), the rest is placed by binary insertion.  The      *)
(* comparator is named by a record c: c.fn is the function whose arrow     *)
(* function is used, c.arrayKey its arrayKey argument.                     *)

NamedArrayKeys ==
    { Lit.customPermissions, Lit.customMetadataTypeAccesses,
      Lit.externalCredentialPrincipalAccesses, Lit.objectPermissions,
      Lit.recordTypeVisibilities, Lit.tabVisibilities, Lit.states }

\* a.name?.[0] || a.object?.[0] || a.recordType?.[0] || a.tab?.[0] || a.isoCode?.[0] || ''
NamedCandidates == << Lit.name, Lit.object, Lit.recordType, Lit.tab, Lit.isoCode >>

\* x[f1]?.[0] || x[f2]?.[0] || ... || ''
RECURSIVE FirstTruthy(_, _), OrNext(_, _, _)
FirstTruthy(x, fields) ==
    IF fields = <<>> THEN Str(<<>>)
    ELSE OrNext(Index0(Get(x, Head(fields))), x, Tail(fields))
OrNext(value, x, rest) == IF Truthy(value) THEN value ELSE FirstTruthy(x, rest)

SortKeyHit(k) == k = Lit.name \/ k = Lit.fullName \/ k = Lit.field \/ Includes(k, Lit.Name)

\* keys.find(k => k === 'name' || k === 'fullName' || k === 'field' || k.includes('Name')) || keys[0]
GenericSortKey(keys) ==
    keys[FirstOrZero({ i \in 1..Len(keys) : SortKeyHit(keys[i]) } \cup
                     { i \in 1..Len(keys) : i = 1 /\ \A j \in 1..Len(keys) : ~SortKeyHit(keys[j]) })]

\* The fields whose first value the comparator c reads from both elements, given
\* its first argument a: apexClass, field, the named candidates, or the key found
\* among Object.keys(a) (none when a has no keys).
SortFields(c, a) ==
    IF c.fn = "sortClassAccesses" THEN << Lit.apexClass >>
    ELSE IF c.arrayKey = Lit.fieldPermissions THEN << Lit.field >>
    ELSE IF c.arrayKey \in NamedArrayKeys THEN NamedCandidates
    ELSE IF Len(ObjectKeys(a)) > 0 THEN << GenericSortKey(ObjectKeys(a)) >>
    ELSE <<>>

\* valueA / valueB (classA / classB) of the comparators of sortClassAccesses and
\* sortArrayElements
SortValue(x, fields) == FirstTruthy(x, fields)

\* if (valueA < valueB) return -1; if (valueA > valueB) return 1; return 0;
CompareSortValues(a, b, fields) == CompareValues(SortValue(a, fields), SortValue(b, fields))

\* The comparator c applied to (a, b); for Object.keys(obj).sort the keys themselves
\* are compared.
Compare(c, a, b) ==
    IF c.fn = "keys" THEN StrCmp(a.v, b.v)
    ELSE CompareSortValues(a, b, SortFields(c, a))

\* The run that starts at w[1] stops at idx when the order breaks.
Breaks(isDescending, order) == IF isDescending THEN order >= 0 ELSE order < 0

\* The last index of the run that starts at w[1] (idx is the next index to look at).
RECURSIVE RunEnd(_, _, _, _)
RunEnd(c, w, idx, isDescending) ==
    IF idx > Len(w) THEN idx - 1
    ELSE IF Breaks(isDescending, Compare(c, w[idx], w[idx - 1])) THEN idx - 1
    ELSE RunEnd(c, w, idx + 1, isDescending)

Reverse(w) == [i \in 1..Len(w) |-> w[Len(w) + 1 - i]]

\* A strictly descending run is reversed in place: <<work array, run length>>
MakeRun(w, isDescending, runLength) ==
    IF isDescending
    THEN << Reverse(SubSeq(w, 1, runLength)) \o SubSeq(w, runLength + 1, Len(w)), runLength >>
    ELSE << w, runLength >>

FindRun(c, w, isDescending) == MakeRun(w, isDescending, RunEnd(c, w, 3, isDescending))

\* CountAndMakeRun: <<work array, run length>>
CountAndMakeRun(c, w) ==
    IF Len(w) < 2 THEN << w, Len(w) >>
    ELSE FindRun(c, w, Compare(c, w[2], w[1]) < 0)

\* The insertion point of pivot in the sorted w[left..right-1]: after its equals.
RECURSIVE BinarySearch(_, _, _, _, _), BinaryStep(_, _, _, _, _, _)
BinarySearch(c, w, pivot, left, right) ==
    IF left >= right THEN left
    ELSE BinaryStep(c, w, pivot, left, right, left + ((right - left) \div 2))
BinaryStep(c, w, pivot, left, right, mid) ==
    IF Compare(c, pivot, w[mid]) < 0
    THEN BinarySearch(c, w, pivot, left, mid)
    ELSE BinarySearch(c, w, pivot, mid + 1, right)

\* w with w[start] moved to index left
InsertAt(w, start, left) ==
    SubSeq(w, 1, left - 1) \o << w[start] >> \o SubSeq(w, left, start - 1)
        \o SubSeq(w, start + 1, Len(w))

\* BinaryInsertionSort: w[1..start-1] is sorted, w[start..] is inserted one by one.
RECURSIVE BinaryInsertionSort(_, _, _)
BinaryInsertionSort(c, w, start) ==
    IF start > Len(w) THEN w
    ELSE BinaryInsertionSort(c, InsertAt(w, start, BinarySearch(c, w, w[start], 1, start)),
                             start + 1)

SortRun(c, run) == BinaryInsertionSort(c, run[1], run[2] + 1)

IsUndefined(x) == x.k = "undefined"
IsDefined(x) == x.k # "undefined"

ArraySort(c, arr) ==
    SortRun(c, CountAndMakeRun(c, SelectSeq(arr, IsDefined))) \o SelectSeq(arr, IsUndefined)

----------------------------------------------------------------------------
(* common/xml/sorter.ts *)

\* Mutant: the array is returned as it came.
sortClassAccesses_NoSort(classAccesses) == classAccesses

sortClassAccesses(classAccesses) ==
    ArraySort([fn |-> "sortClassAccesses", arrayKey |-> <<>>], classAccesses)

sortArrayElements(arr, arrayKey) ==
    ArraySort([fn |-> "sortArrayElements", arrayKey |-> arrayKey], arr)

StrEach(ks) == [i \in 1..Len(ks) |-> Str(ks[i])]
UnStrEach(ss) == [i \in 1..Len(ss) |-> ss[i].v]

\* Mutant: the keys are left in property order.
SortedKeys_Unsorted(o) == ObjectKeys(o)

\* Object.keys(obj).sort((a, b) => ...)
SortedKeys(o) == UnStrEach(ArraySort([fn |-> "keys", arrayKey |-> <<>>], StrEach(ObjectKeys(o))))

RECURSIVE sortXmlElements(_, _), MapSortXmlElements(_), RebuildSorted(_, _)

\* The array and object branches of sortXmlElements, and its final return obj.
SortArrayOrObject(o, parentKey) ==
    IF o.k = "arr" THEN
        IF parentKey = Str(Lit.classAccesses) THEN
            MapSortXmlElements(sortClassAccesses(o.v))
        ELSE IF Truthy(parentKey) /\ Len(o.v) > 0 /\ TypeofObject(o.v[1]) THEN
            MapSortXmlElements(sortArrayElements(o.v, parentKey.v))
        ELSE MapSortXmlElements(o.v)
    ELSE IF o.k = "obj" THEN RebuildSorted(o, SortedKeys(o))
    ELSE o

\* The array obj as classAccesses.sort(...) / arr.sort(...) leave it: Array.prototype.sort
\* sorts the array it is called on and returns that same array; an array that
\* neither branch takes is only read by map.
SortedInPlace(items, parentKey) ==
    IF parentKey = Str(Lit.classAccesses) THEN sortClassAccesses(items)
    ELSE IF Truthy(parentKey) /\ Len(items) > 0 /\ TypeofObject(items[1]) THEN
        sortArrayElements(items, parentKey.v)
    ELSE items

\* The tree the caller passed, after sortXmlElements(obj, parentKey) has returned:
\* every array the traversal sorted is in sorted order, the objects (rebuilt into
\* a new sortedObj) keep their keys as they were.
RECURSIVE ArgumentAfter(_, _)
ArgumentAfter(o, parentKey) ==
    IF o.k = "arr" THEN
        Arr([i \in 1..Len(o.v) |-> ArgumentAfter(SortedInPlace(o.v, parentKey)[i], Undefined)])
    ELSE IF o.k = "obj" THEN
        Obj([i \in 1..Len(o.v) |-> << o.v[i][1], ArgumentAfter(o.v[i][2], Str(o.v[i][1])) >>])
    ELSE o

\* Mutant: without the null guard, null reaches Object.keys(null), which throws.
sortXmlElements_NoNullGuard(o, parentKey) ==
    IF o.k = "null" THEN TypeError
    ELSE IF o.k = "undefined" THEN o
    ELSE SortArrayOrObject(o, parentKey)

sortXmlElements(o, parentKey) ==
    IF o.k \in {"null", "undefined"} THEN o
    ELSE SortArrayOrObject(o, parentKey)

\* items.map(item => sortXmlElements(item))
MapSortXmlElements(items) == Arr([i \in 1..Len(items) |-> sortXmlElements(items[i], Undefined)])

\* Mutant: the rebuilt object loses the attributes key.
RebuildSorted_DropsAttributes(o, sortedKeys) ==
    Obj(SelectSeq([i \in 1..Len(sortedKeys) |->
                     << sortedKeys[i], sortXmlElements(Get(o, sortedKeys[i]), Str(sortedKeys[i])) >>],
                  LAMBDA e : e[1] # <<"$">>))

\* for (const key of sortedKeys) sortedObj[key] = sortXmlElements(obj[key], key);
RebuildSorted(o, sortedKeys) ==
    Obj([i \in 1..Len(sortedKeys) |->
           << sortedKeys[i], sortXmlElements(Get(o, sortedKeys[i]), Str(sortedKeys[i])) >>])

----------------------------------------------------------------------------
(* String.prototype.replace with a global pattern that is a literal *)

\* The concatenation of a sequence of strings.
RECURSIVE Flatten(_)
Flatten(chunks) == IF chunks = <<>> THEN <<>> ELSE Head(chunks) \o Flatten(Tail(chunks))

\* The least index >= from at which pat occurs in s, 0 when there is none.
IndexOf(s, pat, from) ==
    FirstOrZero({ i \in from..(Len(s) - Len(pat) + 1) : SubSeq(s, i, i + Len(pat) - 1) = pat })

RECURSIVE ReplaceAll(_, _, _), ReplaceFrom(_, _, _, _)
\* s.replace(/pat/g, rep): the occurrences of pat, left to right and not overlapping
ReplaceAll(s, pat, rep) == ReplaceFrom(s, pat, rep, IndexOf(s, pat, 1))
ReplaceFrom(s, pat, rep, at) ==
    IF at = 0 THEN s
    ELSE SubSeq(s, 1, at - 1) \o rep \o ReplaceAll(SubSeq(s, at + Len(pat), Len(s)), pat, rep)

----------------------------------------------------------------------------
(* xml-helpers.ts: entity masking *)

ENTITY_MARKER == <<"_", "_", "_", "E", "N", "T", "I", "T", "Y", "_", "M", "A", "R", "K", "E",
    "R", "_", "_", "_">>

\* The names of the five entities, with the semicolon that ends a reference.
Entity ==
    [ apos |-> <<"a", "p", "o", "s", ";">>,
      quot |-> <<"q", "u", "o", "t", ";">>,
      amp |-> <<"a", "m", "p", ";">>,
      lt |-> <<"l", "t", ";">>,
      gt |-> <<"g", "t", ";">> ]

\* The entity reference and the marked form of an entity name.
Reference(name) == <<"&">> \o name
Marked(name) == ENTITY_MARKER \o name

prefixXmlEntities(s) ==
    ReplaceAll(ReplaceAll(ReplaceAll(ReplaceAll(ReplaceAll(s,
        Reference(Entity.apos), Marked(Entity.apos)),
        Reference(Entity.quot), Marked(Entity.quot)),
        Reference(Entity.amp), Marked(Entity.amp)),
        Reference(Entity.lt), Marked(Entity.lt)),
        Reference(Entity.gt), Marked(Entity.gt))

restoreXmlEntities(s) ==
    ReplaceAll(ReplaceAll(ReplaceAll(ReplaceAll(ReplaceAll(s,
        Marked(Entity.amp), Reference(Entity.amp)),
        Marked(Entity.lt), Reference(Entity.lt)),
        Marked(Entity.gt), Reference(Entity.gt)),
        Marked(Entity.quot), Reference(Entity.quot)),
        Marked(Entity.apos), Reference(Entity.apos))

----------------------------------------------------------------------------
(* xml2js.Parser over sax in strict mode, with the options parseXml and          *)
(* parseMetadataXml give it: explicitArray, no explicitRoot, trim, attributes    *)
(* under '$', text under '_'.                                                    *)

\* \s
Whitespace == { " ", "\n", "\t", "\r" }
\* \w
WordChars ==
    { "A", "B", "C", "D", "E", "F", "G", "H", "I", "J", "K", "L", "M", "N", "O", "P", "Q", "R",
      "S", "T", "U", "V", "W", "X", "Y", "Z", "a", "b", "c", "d", "e", "f", "g", "h", "i", "j",
      "k", "l", "m", "n", "o", "p", "q", "r", "s", "t", "u", "v", "w", "x", "y", "z", "0", "1",
      "2", "3", "4", "5", "6", "7", "8", "9", "_" }
Digits == { "0", "1", "2", "3", "4", "5", "6", "7", "8", "9" }

\* The least index >= from whose character is outside chars, Len(s) + 1 when there is none.
SkipWhile(s, from, chars) ==
    FirstOrZero({ i \in from..(Len(s) + 1) : i = Len(s) + 1 \/ s[i] \notin chars })

\* /^\s*$/
IsBlank(s) == \A i \in 1..Len(s) : s[i] \in Whitespace

\* String.prototype.trim
Trim(s) ==
    SubSeq(s, SkipWhile(s, 1, Whitespace),
           FirstOrZero({ i \in 0..Len(s) : \A j \in (i + 1)..Len(s) : s[j] \in Whitespace }))

\* The result of a parse that threw.
ParseError == [k |-> "throw", v |-> <<"p", "a", "r", "s", "e">>]

K_attr == << "$" >>
K_char == << "_" >>

\* The name of a tag, the part before its first whitespace.
TagName(m) == SubSeq(m, 1, SkipWhile(m, 1, { c \in Range(m) : c \notin Whitespace }) - 1)

\* The attributes of a tag: name="value" pairs after the tag's name.
RECURSIVE AttributesFrom(_, _, _), AttributeAt(_, _, _, _), AttributeValue(_, _, _, _, _)
AttributesFrom(m, pos, acc) == AttributeAt(m, pos, IndexOf(m, <<"=">>, pos), acc)
AttributeAt(m, pos, eq, acc) ==
    IF eq = 0 THEN acc ELSE AttributeValue(m, pos, eq, IndexOf(m, <<"\"">>, eq + 2), acc)
AttributeValue(m, pos, eq, close, acc) ==
    AttributesFrom(m, close + 1,
                   Append(acc, << Trim(SubSeq(m, pos, eq - 1)), Str(SubSeq(m, eq + 2, close - 1)) >>))

\* onopentag: a new node with empty text, its attributes and no children yet
onopentag(st, m) ==
    [st EXCEPT !.stack = Append(@, [name |-> TagName(m),
                                    attrs |-> AttributesFrom(m, Len(TagName(m)) + 1, <<>>),
                                    text |-> <<>>,
                                    kids |-> <<>>])]

\* ontext: text is added to the open node; outside the root only whitespace may occur
ontext(st, text) ==
    IF st.stack = <<>>
    THEN [st EXCEPT !.error = @ \/ ~IsBlank(text)]
    ELSE [st EXCEPT !.stack[Len(st.stack)].text = @ \o text]

\* The '$' entry of a node that has attributes.
AttrEntry(node) == IF node.attrs = <<>> THEN <<>> ELSE << << K_attr, Obj(node.attrs) >> >>

\* The value of a node at its closing tag: blank text is dropped and a node left with
\* nothing becomes that text; other text is trimmed and a node with only text becomes it.
CloseValue(node) ==
    IF node.attrs = <<>> /\ node.kids = <<>>
    THEN Str(IF IsBlank(node.text) THEN node.text ELSE Trim(node.text))
    ELSE Obj((IF IsBlank(node.text) THEN <<>> ELSE << << K_char, Str(Trim(node.text)) >> >>)
             \o AttrEntry(node) \o node.kids)

\* assignOrPush with explicitArray: the first value of a key starts its array
AssignAt(kids, i, key, newValue) ==
    IF i = 0 THEN Append(kids, << key, Arr(<< newValue >>) >>)
    ELSE [kids EXCEPT ![i] = << key, Arr(Append(kids[i][2].v, newValue)) >>]
assignOrPush(kids, key, newValue) ==
    AssignAt(kids, FirstOrZero({ i \in 1..Len(kids) : kids[i][1] = key }), key, newValue)

\* The closed node becomes the result, or a child of the node below it.
Popped(st, n, nodeName, value) ==
    IF n = 1 THEN [st EXCEPT !.stack = <<>>, !.result = value]
    ELSE [st EXCEPT !.stack = Append(SubSeq(st.stack, 1, n - 2),
                                     [st.stack[n - 1] EXCEPT
                                         !.kids = assignOrPush(@, nodeName, value)])]

\* onclosetag; a closing tag that does not match the open node is an error
onclosetag(st, nodeName) ==
    IF st.stack = <<>> \/ st.error THEN [st EXCEPT !.error = TRUE]
    ELSE IF st.stack[Len(st.stack)].name # nodeName THEN [st EXCEPT !.error = TRUE]
    ELSE Popped(st, Len(st.stack), nodeName, CloseValue(st.stack[Len(st.stack)]))

\* What is between '<' and '>': a declaration or comment, a closing tag, an
\* opening tag, or a self-closing tag, which opens and closes.
Opened(st, m) ==
    IF m[1] = "/" THEN st
    ELSE onopentag(st, IF m[Len(m)] = "/" THEN SubSeq(m, 1, Len(m) - 1) ELSE m)
Closed(st, m) ==
    IF m[1] = "/" THEN onclosetag(st, Trim(Tail(m)))
    ELSE IF m[Len(m)] = "/" THEN onclosetag(st, TagName(SubSeq(m, 1, Len(m) - 1)))
    ELSE st
OnMarkup(st, m) ==
    IF m = <<>> THEN [st EXCEPT !.error = TRUE]
    ELSE IF m[1] \in { "?", "!" } THEN st
    ELSE Closed(Opened(st, m), m)

\* The index of the '>' that ends the markup starting at lt, 0 when it never ends.
EndAfter(i, k) == IF i = 0 THEN 0 ELSE i + k
MarkupEnd(s, lt) ==
    IF SubSeq(s, lt, lt + 1) = << "<", "?" >> THEN EndAfter(IndexOf(s, << "?", ">" >>, lt), 1)
    ELSE IF SubSeq(s, lt, lt + 3) = << "<", "!", "-", "-" >>
         THEN EndAfter(IndexOf(s, << "-", "-", ">" >>, lt + 4), 2)
    ELSE IndexOf(s, << ">" >>, lt)

RECURSIVE SaxParse(_, _, _), SaxText(_, _, _, _), SaxMarkup(_, _, _, _)
SaxParse(s, pos, st) ==
    IF st.error \/ pos > Len(s) THEN st ELSE SaxText(s, pos, IndexOf(s, << "<" >>, pos), st)
SaxText(s, pos, lt, st) ==
    IF lt = 0 THEN ontext(st, SubSeq(s, pos, Len(s)))
    ELSE SaxMarkup(s, lt, MarkupEnd(s, lt), ontext(st, SubSeq(s, pos, lt - 1)))
SaxMarkup(s, lt, end, st) ==
    IF end = 0 THEN [st EXCEPT !.error = TRUE]
    ELSE SaxParse(s, end + 1, OnMarkup(st, SubSeq(s, lt + 1, end - 1)))

\* The parse's result: the value of the root node (explicitRoot: false), or an error.
ParseResult(st) ==
    IF st.error \/ st.stack # <<>> \/ st.result = Undefined THEN ParseError ELSE st.result

\* parser.parseStringPromise(xmlString)
parseStringPromise(s) ==
    ParseResult(SaxParse(s, 1, [stack |-> <<>>, result |-> Undefined, error |-> FALSE]))

----------------------------------------------------------------------------
(* xml2js.Builder over xmlbuilder, with the options buildXml and buildMetadataXml *)
(* give it: pretty printing with four spaces, an XML declaration, attributes      *)
(* under '$', text under '_'.                                                      *)

XmlDeclaration == <<"<", "?", "x", "m", "l", " ", "v", "e", "r", "s", "i", "o", "n", "=", "\"",
    "1", ".", "0", "\"", " ", "e", "n", "c", "o", "d", "i", "n", "g", "=", "\"", "U", "T", "F",
    "-", "8", "\"", "?", ">">>

\* xmlbuilder's escaping of text and of attribute values
textEscape(str) ==
    ReplaceAll(ReplaceAll(ReplaceAll(str,
        <<"&">>, Reference(Entity.amp)),
        <<"<">>, Reference(Entity.lt)),
        <<">">>, Reference(Entity.gt))
attEscape(str) ==
    ReplaceAll(ReplaceAll(ReplaceAll(str,
        <<"&">>, Reference(Entity.amp)),
        <<"<">>, Reference(Entity.lt)),
        <<"\"">>, Reference(Entity.quot))

TextNode(text) == [t |-> "text", text |-> text]
EleNode(name, value) == [t |-> "ele", name |-> name, value |-> value]

\* render, for one key of an object: '$' gives no child, '_' a text child, an array
\* one element per entry, anything else one element
EntryNodes(key, child) ==
    IF key = K_attr THEN <<>>
    ELSE IF key = K_char THEN << TextNode(ToPrimitive(child)) >>
    ELSE IF child.k = "arr" THEN [i \in 1..Len(child.v) |-> EleNode(key, child.v[i])]
    ELSE << EleNode(key, child) >>

\* render: the children of an element built from a value; a string is its text
ChildNodes(value) ==
    IF value.k = "obj"
    THEN Flatten([i \in 1..Len(value.v) |-> EntryNodes(value.v[i][1], value.v[i][2])])
    ELSE IF value.k = "arr"
    THEN Flatten([i \in 1..Len(value.v) |->
                    [j \in 1..Len(ObjectKeys(value.v[i])) |->
                        EleNode(KeyAt(value.v[i], j), ValueAt(value.v[i], j))]])
    ELSE IF value.k \in { "null", "undefined" } THEN <<>>
    ELSE << TextNode(ToPrimitive(value)) >>

\* render: the attributes of an element, written name="value"
WriteAttributes(atts) ==
    IF atts.k # "obj" THEN <<>>
    ELSE Flatten([i \in 1..Len(atts.v) |->
                    <<" ">> \o atts.v[i][1] \o << "=", "\"" >> \o attEscape(ToPrimitive(atts.v[i][2]))
                    \o << "\"" >>])
AttributesOf(value) == IF value.k = "obj" THEN WriteAttributes(Get(value, K_attr)) ELSE <<>>

Indent(level) == [i \in 1..(4 * level) |-> " "]

\* The pretty writer: an element without content is self-closed, an element whose
\* only child is text stays on one line, any other has one child per line.
RECURSIVE WriteElement(_, _, _), WriteTag(_, _, _, _), WriteNode(_, _)
WriteElement(name, value, level) == WriteTag(name, AttributesOf(value), ChildNodes(value), level)
WriteTag(name, atts, nodes, level) ==
    Indent(level) \o <<"<">> \o name \o atts \o
    (IF \A i \in 1..Len(nodes) : nodes[i].t = "text" /\ nodes[i].text = <<>>
     THEN << "/", ">", "\n" >>
     ELSE IF Len(nodes) = 1 /\ nodes[1].t = "text"
     THEN <<">">> \o textEscape(nodes[1].text) \o << "<", "/" >> \o name \o << ">", "\n" >>
     ELSE << ">", "\n" >> \o Flatten([i \in 1..Len(nodes) |-> WriteNode(nodes[i], level + 1)])
          \o Indent(level) \o << "<", "/" >> \o name \o << ">", "\n" >>)
WriteNode(node, level) ==
    IF node.t = "text" THEN Indent(level) \o textEscape(node.text) \o <<"\n">>
    ELSE WriteElement(node.name, node.value, level)

\* The document without the newline that ends it.
EndDocument(r) == IF r # <<>> /\ r[Len(r)] = "\n" THEN SubSeq(r, 1, Len(r) - 1) ELSE r

\* builder.buildObject(rootObj): an object with one key gives the root its name and
\* content when the rootName option is the default 'root'
BuildRoot(rootObj, rootName, single) ==
    XmlDeclaration \o <<"\n">>
    \o EndDocument(WriteElement(IF single THEN KeyAt(rootObj, 1) ELSE rootName,
                                IF single THEN ValueAt(rootObj, 1) ELSE rootObj, 0))
buildObject(rootObj, rootName) ==
    BuildRoot(rootObj, rootName, Len(ObjectKeys(rootObj)) = 1 /\ rootName = Lit.root)

----------------------------------------------------------------------------
(* xml-helpers.ts and SfMetadataAdjuster: root name, parse and build *)

\* [a-zA-Z_] and [\w\-.:]
NameStartChars == WordChars \ Digits
NameChars == WordChars \cup { "-", ".", ":" }

\* xmlString.match(/<\s*([a-zA-Z_][\w\-.:]*)/): the leftmost '<' followed, after any
\* whitespace, by a name start; the name is the longest run of name characters
MatchRootElement(s) ==
    FirstOrZero({ i \in 1..Len(s) :
                    /\ s[i] = "<"
                    /\ SkipWhile(s, i + 1, Whitespace) <= Len(s)
                    /\ s[SkipWhile(s, i + 1, Whitespace)] \in NameStartChars })
MatchedName(s, start) == SubSeq(s, start, SkipWhile(s, start, NameChars) - 1)
RootElementAt(s, i) == IF i = 0 THEN Lit.root ELSE MatchedName(s, SkipWhile(s, i + 1, Whitespace))
extractRootElementName(xmlString_) == RootElementAt(xmlString_, MatchRootElement(xmlString_))

\* parseMetadataXml(xmlString) and SfMetadataAdjuster.parseXml(xmlString)
parseMetadataXml(xmlString_) == parseStringPromise(xmlString_)
parseXml(xmlString_) == parseStringPromise(xmlString_)

\* Object.keys(obj).filter(key => key !== '$' && key !== '_')
RootKeys(o) == SelectSeq(ObjectKeys(o), LAMBDA key : key # K_attr /\ key # K_char)

\* if (rootName === 'root') { ...; if (rootKeys.length > 0) rootName = rootKeys[0]; }
FallbackRootName(rootName, rootKeys) ==
    IF rootName = Lit.root /\ Len(rootKeys) > 0 THEN rootKeys[1] ELSE rootName

\* if (!xmlOutput.endsWith('\n')) xmlOutput += '\n';
EndWithNewline_Unchanged(xmlOutput) == xmlOutput
EndWithNewline(xmlOutput) ==
    IF xmlOutput # <<>> /\ xmlOutput[Len(xmlOutput)] = "\n" THEN xmlOutput
    ELSE xmlOutput \o <<"\n">>

\* xmlOutput.replace(/<(\w+)([^>]*)\/>/g, '<$1$2></$1>'): a match starts at a '<'
\* followed by a word character and ends at the first '>' after it, which must follow
\* a '/'; $1 is the longest run of word characters after the '<'
IsSelfClosingAt(s, i, gt) ==
    /\ s[i] = "<"
    /\ gt >= i + 3
    /\ s[i + 1] \in WordChars
    /\ s[gt - 1] = "/"
MatchSelfClosing(s) ==
    FirstOrZero({ i \in 1..Len(s) : IsSelfClosingAt(s, i, IndexOf(s, <<">">>, i)) })
FirstGroup(s, i, gt) == SubSeq(s, i + 1, SkipWhile(SubSeq(s, 1, gt - 2), i + 1, WordChars) - 1)
RECURSIVE ExpandSelfClosing(_), ExpandAt(_, _), ExpandMatch(_, _, _)
ExpandSelfClosing(s) == ExpandAt(s, MatchSelfClosing(s))
ExpandAt(s, i) == IF i = 0 THEN s ELSE ExpandMatch(s, i, IndexOf(s, <<">">>, i))
ExpandMatch(s, i, gt) ==
    SubSeq(s, 1, gt - 2) \o << ">", "<", "/" >> \o FirstGroup(s, i, gt) \o <<">">>
    \o ExpandSelfClosing(SubSeq(s, gt + 1, Len(s)))

\* SfMetadataAdjuster.buildXml(obj, originalFilePath, originalXml)
buildXml(o, originalXml_) ==
    EndWithNewline(restoreXmlEntities(
        buildObject(o, FallbackRootName(extractRootElementName(originalXml_), RootKeys(o)))))

\* buildMetadataXml(obj, originalXml)
buildMetadataXml(o, originalXml_) ==
    EndWithNewline(ExpandSelfClosing(restoreXmlEntities(
        buildObject(o, FallbackRootName(extractRootElementName(originalXml_), RootKeys(o))))))

\* SfMetadataAdjuster.processFile up to the comparison: the text built from the file's
\* content, or the error that parsing threw
BuiltFrom(originalXml_, xmlObject) ==
    IF xmlObject = ParseError THEN ParseError
    ELSE Str(buildXml(sortXmlElements(xmlObject, Undefined), originalXml_))
SortedXmlOf(originalXml_) == BuiltFrom(originalXml_, parseXml(prefixXmlEntities(originalXml_)))

\* The tests' use of the helpers: buildMetadataXml(parseMetadataXml(prefixXmlEntities(original)), original)
RebuiltFrom(original, parsed) ==
    IF parsed = ParseError THEN ParseError ELSE Str(buildMetadataXml(parsed, original))
RebuiltOf(original) == RebuiltFrom(original, parseMetadataXml(prefixXmlEntities(original)))

----------------------------------------------------------------------------
(* The sorter's inputs: sequences of at most MaxSeqLen elements under each *)
(* kind of context argKey, and the trees of the unit tests.                   *)

MaxSeqLen == 3

\* One text child, as the parser delivers it: name: [ 'text' ]
Child(name, text) == << name, Arr(<< Str(text) >>) >>

SorterElems ==
    { Obj(<< Child(Lit.name, <<"B">>), Child(Lit.field, <<"a">>), Child(Lit.apexClass, <<"B">>) >>),
      Obj(<< Child(Lit.field, <<"B">>), Child(Lit.apexClass, <<"B">>), Child(Lit.name, <<"a">>) >>),
      Obj(<< Child(Lit.name, <<"A">>), Child(Lit.field, <<"c">>), Child(Lit.apexClass, <<"A">>) >>),
      Obj(<< Child(Lit.object, <<"A">>), Child(Lit.apexClass, <<"a">>) >>),
      Obj(<< Child(Lit.object, <<"C">>), Child(Lit.name, <<>>), Child(Lit.field, <<>>),
             Child(Lit.apexClass, <<>>) >>),
      Obj(<< Child(Lit.enabled, <<"t">>),
             << <<"$">>, Obj(<< << <<"b">>, Str(<<"1">>) >>, << <<"a">>, Str(<<"2">>) >> >>) >> >>),
      Str(<<"x">>) }

SorterSeqs == UNION { [1..n -> SorterElems] : n \in 0..MaxSeqLen }

SorterContexts ==
    { Lit.classAccesses, Lit.fieldPermissions, Lit.objectPermissions, Lit.dispositions, Lit.items }

\* { zebra, Zebra, apple, Apple } in every property order
CaseKeys == { Lit.zebra, Lit.Zebra, Lit.apple, Lit.Apple }

CaseObjects ==
    { Obj([i \in 1..4 |-> << ks[i], Str(Lit.value) >>]) :
        ks \in { f \in [1..4 -> CaseKeys] : \A i, j \in 1..4 : i # j => f[i] # f[j] } }

SorterTrees ==
    { Null, Undefined, Str(<<"s", "t", "r", "i", "n", "g">>), Str(<<>>), Num(123), Num(0),
      Bool(TRUE), Bool(FALSE), Obj(<<>>), Arr(<<>>) }
    \cup CaseObjects
    \cup { Obj(<< << Lit.parent, o >> >>) : o \in CaseObjects }
    \cup { Obj(<< << Lit.zebra, Null >>, << Lit.fieldPermissions, Arr(s) >>, << Lit.Apple, Str(Lit.value) >> >>) :
             s \in { t \in SorterSeqs : Len(t) = 2 } }

\* The variables of the other specifications, at rest.
AdjusterIdle ==
    /\ fileXml = Undefined
    /\ originalXml = Undefined
    /\ sortedXml = Undefined
    /\ stats = Undefined
    /\ rebuilt = Undefined
RunIdle == git = Undefined /\ changedFiles = Undefined
SourceIdle == source = Undefined
EnsureIdle == onError = "absent" /\ outcome = Undefined
ToolsIdle ==
    /\ targetDir = Undefined /\ result = Undefined /\ exitCode = Undefined
    /\ metadata = Undefined /\ removedItems = Undefined /\ issues = Undefined
    /\ RunIdle /\ SourceIdle /\ EnsureIdle
ProcessIdle ==
    /\ argv = Undefined /\ adjuster = Undefined /\ disk = Undefined /\ tree = Undefined
    /\ call = Undefined /\ pc = "none" /\ metadataFiles = <<>> /\ fileIndex = 0 /\ io = Undefined
EntitiesIdle ==
    xmlString = Undefined /\ prefixed = Undefined /\ restored = Undefined /\ rootElement = Undefined
SorterIdle ==
    op = "none" /\ obj = Undefined /\ argKey = Undefined /\ ret = Undefined /\ argAfter = Undefined

InitSorter ==
    /\ EntitiesIdle
    /\ AdjusterIdle
    /\ ProcessIdle
    /\ ToolsIdle
    /\ op = "none"
    /\ ret = Undefined
    /\ argAfter = Undefined
    /\ \/ obj \in SorterTrees /\ argKey = Undefined
       \/ obj \in { Arr(s) : s \in SorterSeqs } /\ argKey \in { Str(c) : c \in SorterContexts }

\* sortXmlElements(obj, parentKey)
CallSortXmlElements ==
    /\ op = "none"
    /\ op' = "sortXmlElements"
    /\ ret' = sortXmlElements(obj, argKey)
    /\ argAfter' = ArgumentAfter(obj, argKey)
    /\ UNCHANGED <<obj, argKey, entityVars, adjusterVars, processVars, toolVars>>

\* sortClassAccesses(classAccesses)
CallSortClassAccesses ==
    /\ op = "none"
    /\ obj.k = "arr"
    /\ op' = "sortClassAccesses"
    /\ ret' = Arr(sortClassAccesses(obj.v))
    /\ argAfter' = ret'
    /\ UNCHANGED <<obj, argKey, entityVars, adjusterVars, processVars, toolVars>>

\* sortArrayElements(arr, arrayKey)
CallSortArrayElements ==
    /\ op = "none"
    /\ obj.k = "arr"
    /\ argKey.k = "str"
    /\ op' = "sortArrayElements"
    /\ ret' = Arr(sortArrayElements(obj.v, argKey.v))
    /\ argAfter' = ret'
    /\ UNCHANGED <<obj, argKey, entityVars, adjusterVars, processVars, toolVars>>

NextSorter == CallSortXmlElements \/ CallSortClassAccesses \/ CallSortArrayElements

SpecSorter == InitSorter /\ [][NextSorter]_vars

----------------------------------------------------------------------------
(* Entity masking: texts of at most MaxChunks pieces, each an entity reference, *)
(* plain text, a bare ampersand, the marker or an entity name.                  *)

MaxChunks == 2

EntityChunks ==
    { Reference(Entity.amp), Reference(Entity.lt), Reference(Entity.gt), Reference(Entity.quot), Reference(Entity.apos),
      <<"x">>, <<"&">>, ENTITY_MARKER, Entity.amp }

EntityTexts == { Flatten(cs) : cs \in UNION { [1..n -> EntityChunks] : n \in 0..MaxChunks } }

InitEntities ==
    /\ SorterIdle
    /\ AdjusterIdle
    /\ ProcessIdle
    /\ ToolsIdle
    /\ xmlString \in { Str(t) : t \in EntityTexts }
    /\ prefixed = Undefined
    /\ restored = Undefined
    /\ rootElement = Undefined

\* prefixed = prefixXmlEntities(xmlString)
CallPrefixXmlEntities ==
    /\ prefixed = Undefined
    /\ prefixed' = Str(prefixXmlEntities(xmlString.v))
    /\ UNCHANGED <<xmlString, restored, rootElement, sorterVars, adjusterVars, processVars, toolVars>>

\* restored = restoreXmlEntities(prefixed)
CallRestoreXmlEntities ==
    /\ prefixed # Undefined
    /\ restored = Undefined
    /\ restored' = Str(restoreXmlEntities(prefixed.v))
    /\ UNCHANGED <<xmlString, prefixed, rootElement, sorterVars, adjusterVars, processVars, toolVars>>

NextEntities == CallPrefixXmlEntities \/ CallRestoreXmlEntities

SpecEntities == InitEntities /\ [][NextEntities]_vars

----------------------------------------------------------------------------
(* extractRootElementName on the head of a document: texts of at most       *)
(* MaxParts parts, each a declaration, a comment, white space or a tag.     *)

MaxParts == 3

RootParts ==
    { <<"<", "?", "x", "m", "l", " ", "v", "e", "r", "s", "i", "o", "n", "=", "\"", "1", ".", "0", "\"", "?", ">">>,
      <<"<", "!", "-", "-", " ", "n", "o", "t", "e", " ", "-", "-", ">">>,
      <<"<", "!", "-", "-", " ", "<", "o", "l", "d", ">", " ", "-", "-", ">">>,
      <<"\n", " ", " ">>,
      <<"<", "P", "r", "o", "f", "i", "l", "e", " ", "x", "m", "l", "n", "s", "=", "\"", "x", "\"", ">">>,
      <<"<", "m", "y", "-", "r", "o", "o", "t", ">">>,
      <<"<", "/", "P", "r", "o", "f", "i", "l", "e", ">">> }

RootTexts == { Flatten(ps) : ps \in UNION { [1..n -> RootParts] : n \in 0..MaxParts } }

InitRootName ==
    /\ SorterIdle
    /\ AdjusterIdle
    /\ ProcessIdle
    /\ ToolsIdle
    /\ xmlString \in { Str(t) : t \in RootTexts }
    /\ prefixed = Undefined
    /\ restored = Undefined
    /\ rootElement = Undefined

\* rootElement = extractRootElementName(xmlString)
CallExtractRootElementName ==
    /\ rootElement = Undefined
    /\ rootElement' = Str(extractRootElementName(xmlString.v))
    /\ UNCHANGED <<xmlString, prefixed, restored, sorterVars, adjusterVars, processVars, toolVars>>

NextRootName == CallExtractRootElementName

SpecRootName == InitRootName /\ [][NextRootName]_vars

----------------------------------------------------------------------------
(* SfMetadataAdjuster: file selection, backup and the processing loop *)

\* hashString(input): the hexadecimal SHA-256 digest of crypto, a library function.
\* The model takes in its place a pair of polynomial digests of the code units (two
\* bases, two prime moduli): a function of the text alone with a result of fixed width.
\* Poly is <<digest, base ^ length>> of input[lo..hi], by halves.
Combine(l, r, m) == << (l[1] * r[2] + r[1]) % m, (l[2] * r[2]) % m >>
RECURSIVE Poly(_, _, _, _, _)
Poly(input, lo, hi, base, m) ==
    IF lo > hi THEN << 0, 1 >>
    ELSE IF lo = hi THEN << Code[input[lo]], base >>
    ELSE Combine(Poly(input, lo, (lo + hi) \div 2, base, m),
                 Poly(input, (lo + hi) \div 2 + 1, hi, base, m), m)
hashString(input) ==
    << Poly(input, 1, Len(input), 131, 32749)[1], Poly(input, 1, Len(input), 137, 32719)[1] >>

\* A path is the sequence of its segments; a segment is a string.
basename(filePath) == filePath[Len(filePath)]
relative(from, to) == SubSeq(to, Len(from) + 1, Len(to))
join(dir, rest) == dir \o rest
EndsWith(str, suffix) ==
    /\ Len(str) >= Len(suffix)
    /\ SubSeq(str, Len(str) - Len(suffix) + 1, Len(str)) = suffix

META_XML == <<"-", "m", "e", "t", "a", ".", "x", "m", "l">>
Types ==
    [ customObject |-> <<"c", "u", "s", "t", "o", "m", "O", "b", "j", "e", "c", "t", "-", "m", "e", "t", "a",
          ".", "x", "m", "l">>,
      cls |-> <<"c", "l", "s", "-", "m", "e", "t", "a", ".", "x", "m", "l">>,
      field |-> <<"f", "i", "e", "l", "d", "-", "m", "e", "t", "a", ".", "x", "m", "l">>,
      labels |-> <<"l", "a", "b", "e", "l", "s", "-", "m", "e", "t", "a", ".", "x", "m", "l">>,
      object |-> <<"o", "b", "j", "e", "c", "t", "-", "m", "e", "t", "a", ".", "x", "m", "l">>,
      permissionset |-> <<"p", "e", "r", "m", "i", "s", "s", "i", "o", "n", "s", "e", "t", "-",
          "m", "e", "t", "a", ".", "x", "m", "l">>,
      profile |-> <<"p", "r", "o", "f", "i", "l", "e", "-", "m", "e", "t", "a", ".", "x", "m",
          "l">>,
      settings |-> <<"s", "e", "t", "t", "i", "n", "g", "s", "-", "m", "e", "t", "a", ".", "x",
          "m", "l">>,
      trigger |-> <<"t", "r", "i", "g", "g", "e", "r", "-", "m", "e", "t", "a", ".", "x", "m",
          "l">>,
      validationRule |-> <<"v", "a", "l", "i", "d", "a", "t", "i", "o", "n", "R", "u", "l", "e",
          "-", "m", "e", "t", "a", ".", "x", "m", "l">>,
      reportType |-> <<"r", "e", "p", "o", "r", "t", "T", "y", "p", "e", "-", "m", "e", "t", "a",
          ".", "x", "m", "l">>,
      flexipage |-> <<"f", "l", "e", "x", "i", "p", "a", "g", "e", "-", "m", "e", "t", "a", ".",
          "x", "m", "l">>,
      layout |-> <<"l", "a", "y", "o", "u", "t", "-", "m", "e", "t", "a", ".", "x", "m", "l">>,
      flow |-> <<"f", "l", "o", "w", "-", "m", "e", "t", "a", ".", "x", "m", "l">> ]
allowedMetadataTypes ==
    << Types.cls, Types.field, Types.labels, Types.object, Types.permissionset, Types.profile,
       Types.settings, Types.trigger, Types.validationRule >>
defaultExclusions == << Types.reportType, Types.flexipage, Types.layout >>
alwaysExcluded == << Types.flow >>

\* str.split(','), then .map(t => t.trim())
RECURSIVE Split(_), SplitAt(_, _)
Split(str) == SplitAt(str, IndexOf(str, <<",">>, 1))
SplitAt(str, comma) ==
    IF comma = 0 THEN <<str>>
    ELSE <<SubSeq(str, 1, comma - 1)>> \o Split(SubSeq(str, comma + 1, Len(str)))
TrimEach(types) == [i \in DOMAIN types |-> Trim(types[i])]
\* parseArgs: the types of an --include or --exclude flag (none when the flag is absent)
parseArgs(flag) == IF flag = Undefined THEN <<>> ELSE TrimEach(Split(flag.v))

\* constructor: a type name gets the suffix -meta.xml unless it ends with it
NormalizeType(t) == IF EndsWith(t, META_XML) THEN t ELSE t \o META_XML
NormalizeTypes(types) == [i \in DOMAIN types |-> NormalizeType(types[i])]
EndsWithAny(str, suffixes) == \E i \in DOMAIN suffixes : EndsWith(str, suffixes[i])

InvalidConfiguration ==
    [k |-> "throw", v |-> <<"I", "n", "v", "a", "l", "i", "d", " ", "c", "o", "n", "f", "i", "g", "u", "r", "a", "t", "i", "o", "n">>]
\* validateIncludeTypes: the include types that end with an always-excluded type
conflictingTypes(includeTypes) ==
    SelectSeq(includeTypes, LAMBDA t : EndsWithAny(t, alwaysExcluded))
\* validateWhitelistedTypes: the include types that end with no whitelisted type
nonWhitelistedTypes(includeTypes, allowAll) ==
    IF allowAll THEN <<>>
    ELSE SelectSeq(includeTypes, LAMBDA t : ~EndsWithAny(t, allowedMetadataTypes))
Validated(includeTypes, excludeTypes, allowAll) ==
    IF conflictingTypes(includeTypes) # <<>> THEN InvalidConfiguration
    ELSE IF nonWhitelistedTypes(includeTypes, allowAll) # <<>> THEN InvalidConfiguration
    ELSE [k |-> "obj", includeTypes |-> includeTypes, excludeTypes |-> excludeTypes,
          allowAll |-> allowAll]
\* new SfMetadataAdjuster(folderPath, includeTypes, excludeTypes, allowAll)
SfMetadataAdjuster(includeTypes, excludeTypes, allowAll) ==
    Validated(NormalizeTypes(includeTypes),
              IF Len(excludeTypes) = 0 THEN defaultExclusions ELSE NormalizeTypes(excludeTypes),
              allowAll)

shouldExcludeFile_ExcludeListOnly(this, filePath) == EndsWithAny(basename(filePath), this.excludeTypes)
shouldExcludeFile(this, filePath) ==
    \/ EndsWithAny(basename(filePath), alwaysExcluded)
    \/ EndsWithAny(basename(filePath), this.excludeTypes)
shouldIncludeFile(this, filePath) ==
    IF Len(this.includeTypes) > 0 THEN EndsWithAny(basename(filePath), this.includeTypes)
    ELSE IF ~this.allowAll THEN EndsWithAny(basename(filePath), allowedMetadataTypes)
    ELSE TRUE
\* the two checks of findMetadataFiles and of processSpecificFiles' filter
Rejected(this, filePath) == shouldExcludeFile(this, filePath) \/ ~shouldIncludeFile(this, filePath)

\* The directory the command works on, and the paths the model's file systems hold
\* in the order readdirSync lists them and git lists the changed ones.
folderPath == << <<"w">> >>
NODE_MODULES == <<"n", "o", "d", "e", "_", "m", "o", "d", "u", "l", "e", "s">>
DOT_GIT == <<".", "g", "i", "t">>
Paths ==
    << join(folderPath, << <<"a", ".", "p", "r", "o", "f", "i", "l", "e", "-", "m", "e", "t", "a", ".", "x", "m", "l">> >>),
       join(folderPath, << <<"b", ".", "f", "l", "o", "w", "-", "m", "e", "t", "a", ".", "x", "m", "l">> >>),
       join(folderPath, << <<"c", ".", "l", "a", "y", "o", "u", "t", "-", "m", "e", "t", "a", ".", "x", "m", "l">> >>),
       join(folderPath, << NODE_MODULES, <<"n", ".", "c", "l", "s", "-", "m", "e", "t", "a", ".", "x", "m", "l">> >>),
       join(folderPath, << <<"s", "u", "b">>, <<"d", ".", "c", "u", "s", "t", "o", "m", "O", "b", "j", "e", "c", "t", "-", "m", "e", "t", "a", ".", "x", "m", "l">> >>),
       join(folderPath, << <<"x", ".", "x", "m", "l">> >>) >>
\* createFileBackup: backupDir (the timestamp is the clock's) and backupFile
backupDir == join(folderPath, << <<".", "b", "a", "c", "k", "u", "p", "-", "T">> >>)
backupFile(file) == join(backupDir, relative(folderPath, file))
AllPaths == Range(Paths) \cup { backupFile(Paths[i]) : i \in DOMAIN Paths }

\* A file that exists and that the process may not read, copy or write.
Unreadable == [k |-> "throw", v |-> <<"E", "A", "C", "C", "E", "S">>]
existsSync(disk_, file) == file \in DOMAIN disk_ /\ disk_[file] # Undefined
isMetadataFile(file) == EndsWith(basename(file), META_XML)

\* findMetadataFiles(dir): the walk enters every directory but node_modules and .git
InSkippedDirectory(file) ==
    \E i \in (Len(folderPath) + 1)..(Len(file) - 1) : file[i] \in { NODE_MODULES, DOT_GIT }
Walked(disk_) ==
    SelectSeq(Paths, LAMBDA file :
        existsSync(disk_, file) /\ ~InSkippedDirectory(file) /\ isMetadataFile(file))
\* processSpecificFiles: the files of the list that exist and are *-meta.xml files
Listed(disk_, files) ==
    SelectSeq(files, LAMBDA file : existsSync(disk_, file) /\ isMetadataFile(file))
\* the files among the candidates that pass both checks, and the number that do not
findMetadataFiles(this, candidates) == SelectSeq(candidates, LAMBDA file : ~Rejected(this, file))
SkippedCount_ExcludedOnly(this, candidates) == Len(SelectSeq(candidates, LAMBDA file : shouldExcludeFile(this, file)))
SkippedCount(this, candidates) == Len(SelectSeq(candidates, LAMBDA file : Rejected(this, file)))

\* createFileBackup(files, basePath): copies file by file and throws at the first
\* file it cannot copy; FirstUncopied is that file's position, 0 when there is none
FirstUncopied(disk_, files) ==
    FirstOrZero({ i \in DOMAIN files : disk_[files[i]].k # "str" })
CopiedFiles_AllButLast(files, failedAt) == SubSeq(files, 1, Len(files) - 1)
CopiedFiles(files, failedAt) ==
    IF failedAt = 0 THEN files ELSE SubSeq(files, 1, failedAt - 1)
CopyInto(disk_, copied) ==
    [ p \in AllPaths |->
        IF \E i \in DOMAIN copied : p = backupFile(copied[i])
        THEN disk_[CHOOSE f \in Range(copied) : p = backupFile(f)]
        ELSE disk_[p] ]
createFileBackup(disk_, files) == CopyInto(disk_, CopiedFiles(files, FirstUncopied(disk_, files)))

\* The results of a read that threw; processFile catches them as it catches ParseError.
ReadError == [k |-> "throw", v |-> <<"r", "e", "a", "d">>]
\* processFile up to the comparison of the hashes: what will be in sortedXml
SortedOrError(original) ==
    IF original.k # "str" THEN ReadError ELSE SortedXmlOf(original.v)
needsUpdate_Always(original, sorted) == sorted.k = "str"
needsUpdate(original, sorted) ==
    sorted.k = "str" /\ hashString(original.v) # hashString(sorted.v)
\* Mutant: a file that failed counts as processed too.
StatsAfter_ErrorsProcessed(stats_, relativePath, sorted, update) ==
    IF sorted.k # "str" THEN [stats_ EXCEPT !.errors = @ + 1, !.processed = @ + 1]
    ELSE IF update THEN [stats_ EXCEPT !.modified = @ + 1, !.processed = @ + 1,
                                       !.files = Append(@, relativePath)]
    ELSE [stats_ EXCEPT !.unchanged = @ + 1, !.processed = @ + 1,
                        !.unchangedFiles = Append(@, relativePath)]
StatsAfter(stats_, relativePath, sorted, update) ==
    IF sorted.k # "str" THEN [stats_ EXCEPT !.errors = @ + 1]
    ELSE IF update THEN [stats_ EXCEPT !.modified = @ + 1, !.processed = @ + 1,
                                       !.files = Append(@, relativePath)]
    ELSE [stats_ EXCEPT !.unchanged = @ + 1, !.processed = @ + 1,
                        !.unchangedFiles = Append(@, relativePath)]
IoAfter(io_, file, sorted, update) ==
    [ read |-> io_.read \cup { file },
      written |-> IF update THEN io_.written \cup { file } ELSE io_.written,
      failed |-> IF sorted.k # "str" THEN io_.failed \cup { file } ELSE io_.failed ]


----------------------------------------------------------------------------
(* The adjuster's files: a root element around at most MaxChildren children, and *)
(* one file that is not well-formed.  processFile runs at most MaxRuns times.    *)

MaxChildren == 2
MaxRuns == 2

\* The text before and after the children, of each root.
FileRoots ==
    { << <<"<", "?", "x", "m", "l", " ", "v", "e", "r", "s", "i", "o", "n", "=", "\"", "1", ".", "0",
            "\"", " ", "e", "n", "c", "o", "d", "i", "n", "g", "=", "\"", "U", "T", "F", "-",
            "8", "\"", "?", ">", "\n", "<", "!", "-", "-", " ", "p", "r", "o", "f", "i", "l",
            "e", " ", "-", "-", ">", "\n", "<", "P", "r", "o", "f", "i", "l", "e", " ", "x", "m",
            "l", "n", "s", "=", "\"", "h", "t", "t", "p", ":", "/", "/", "x", "\"",
            ">">>,
         <<"<", "/", "P", "r", "o", "f", "i", "l", "e", ">", "\n">> >>,
      << <<"<", "r", "o", "o", "t", ">">>,
         <<"<", "/", "r", "o", "o", "t", ">">> >>,
      << <<"<", "?", "x", "m", "l", " ", "v", "e", "r", "s", "i", "o", "n", "=", "\"", "1", ".", "0",
            "\"", "?", ">", "<", "m", "y", "-", "r", "o", "o", "t", ">", "\n">>,
         <<"<",
            "/", "m", "y", "-", "r", "o", "o", "t", ">">> >> }

FileChildren ==
    { <<"<", "i", "t", "e", "m", "s", ">", "<", "n", "a", "m", "e", ">", "A", "<", "/", "n", "a", "m",
         "e", ">", "<", "f", "i", "e", "l", "d", ">", "Z", "<", "/", "f", "i", "e", "l", "d",
         ">", "<", "/", "i", "t", "e", "m", "s", ">">>,
      <<"<", "i", "t", "e", "m", "s", ">", "<", "n", "a", "m", "e", ">", "B", "<", "/", "n", "a", "m",
         "e", ">", "<", "f", "i", "e", "l", "d", ">", "Y", "<", "/", "f", "i", "e", "l", "d",
         ">", "<", "/", "i", "t", "e", "m", "s", ">">>,
      <<"<", "s", "e", "l", "f", "C", "l", "o", "s", "i", "n", "g", "/", ">">>,
      <<"<", "m", "y", "-", "t", "a", "g", " ", "a", "=", "\"", "1", "\"", "/", ">">>,
      <<"<", "q", "u", "o", "t", "e", ">", "I", "t", "&", "a", "p", "o", "s", ";", "s", " ", "&", "a",
         "m", "p", ";", " ", "o", "k", "<", "/", "q", "u", "o", "t", "e", ">">>,
      <<"<", "n", ":", "e", ".", "f", ">", "<", "/", "n", ":", "e", ".", "f", ">">> }

MalformedFile == <<"<", "P", "r", "o", "f", "i", "l", "e", ">", "<", "a", ">", "<", "/", "P",
    "r", "o", "f", "i", "l", "e", ">">>

FileTexts ==
    { r[1] \o Flatten(cs) \o r[2] :
        r \in FileRoots, cs \in UNION { [1..n -> FileChildren] : n \in 0..MaxChildren } }
    \cup { MalformedFile }

Stats(processed, modified, unchanged, skipped, errors) ==
    [processed |-> processed, modified |-> modified, unchanged |-> unchanged,
     skipped |-> skipped, errors |-> errors, files |-> <<>>, unchangedFiles |-> <<>>]

InitAdjuster ==
    /\ SorterIdle
    /\ EntitiesIdle
    /\ ProcessIdle
    /\ ToolsIdle
    /\ fileXml \in { Str(t) : t \in FileTexts }
    /\ originalXml = Undefined
    /\ sortedXml = Undefined
    /\ stats = Stats(0, 0, 0, 0, 0)
    /\ rebuilt = Undefined

\* processFile(filePath): the file is rewritten when the built text differs from what
\* was read (their hashes differ); an error is caught and counted
ProcessFile ==
    /\ stats.processed + stats.errors < MaxRuns
    /\ originalXml' = fileXml
    /\ sortedXml' = SortedXmlOf(fileXml.v)
    /\ fileXml' = IF needsUpdate(fileXml, sortedXml') THEN sortedXml' ELSE fileXml
    /\ stats' = StatsAfter(stats, relative(folderPath, Paths[1]), sortedXml', needsUpdate(fileXml, sortedXml'))
    /\ UNCHANGED <<rebuilt, sorterVars, entityVars, processVars, toolVars>>

\* buildMetadataXml(parsed, original) for the file's content, before any processFile
RebuildMetadataXml ==
    /\ originalXml = Undefined
    /\ rebuilt = Undefined
    /\ rebuilt' = RebuiltOf(fileXml.v)
    /\ UNCHANGED <<fileXml, originalXml, sortedXml, stats, sorterVars, entityVars, processVars, toolVars>>

NextAdjuster == ProcessFile \/ RebuildMetadataXml

SpecAdjuster == InitAdjuster /\ [][NextAdjuster]_vars

----------------------------------------------------------------------------
(* The command: constructor, process, processSpecificFiles *)

MaxFiles == 2

UnsortedFile == <<"<", "r", ">", "<", "b", ">", "1", "<", "/", "b", ">", "<", "a", ">", "2", "<", "/", "a",
      ">", "<", "/", "r", ">">>
CanonicalFile ==
    <<"<", "?", "x", "m", "l", " ", "v", "e", "r", "s", "i", "o", "n", "=", "\"", "1", ".",
      "0", "\"", " ", "e", "n", "c", "o", "d", "i", "n", "g", "=", "\"", "U", "T", "F",
      "-", "8", "\"", "?", ">", "\n", "<", "r", ">", "\n", " ", " ", " ", " ", "<", "a",
      ">", "2", "<", "/", "a", ">", "\n", " ", " ", " ", " ", "<", "b", ">", "1", "<", "/",
      "b", ">", "\n", "<", "/", "r", ">", "\n">>
Contents == { Str(UnsortedFile), Str(CanonicalFile), Str(MalformedFile), Unreadable }

\* The file systems with at most MaxFiles files, each with one of the given contents.
DiskOf(present, content) ==
    [ p \in AllPaths |-> IF p \in present THEN content[p] ELSE Undefined ]
Disks(contents) ==
    UNION { { DiskOf(present, content) : content \in [present -> contents] } :
            present \in { P \in SUBSET Range(Paths) : Cardinality(P) <= MaxFiles } }

IncludeFlags == { Undefined, Str(<<"p", "r", "o", "f", "i", "l", "e">>), Str(<<"f", "l", "o", "w">>), Str(<<"l", "a", "y", "o", "u", "t", ",", " ", "p", "r", "o", "f", "i", "l", "e">>) }
ExcludeFlags == { Undefined, Str(<<>>), Str(<<"p", "r", "o", "f", "i", "l", "e">>) }
Argv(include, exclude, all, backup) ==
    [include |-> include, exclude |-> exclude, all |-> all, backup |-> backup]
\* the lists of changed files processSpecificFiles is given
ChangedFiles == { <<>>, Paths }

\* Every flag combination on files that need sorting, and the flags that select by
\* the whitelist or select everything on files of every content.
InitProcess ==
    /\ SorterIdle
    /\ EntitiesIdle
    /\ AdjusterIdle
    /\ ToolsIdle
    /\ \/ /\ argv \in { Argv(i, e, a, b) :
                          i \in IncludeFlags, e \in ExcludeFlags, a \in BOOLEAN, b \in BOOLEAN }
          /\ disk \in Disks({ Str(UnsortedFile) })
       \/ /\ argv \in { Argv(Undefined, Undefined, a, b) : a \in BOOLEAN, b \in BOOLEAN }
          /\ disk \in Disks(Contents)
    /\ tree = disk
    /\ adjuster = Undefined
    /\ call = Undefined
    /\ pc = "start"
    /\ metadataFiles = <<>>
    /\ fileIndex = 0
    /\ io = [read |-> {}, written |-> {}, failed |-> {}]

\* new SfMetadataAdjuster(targetDir, parsed.includeTypes, parsed.excludeTypes, all);
\* the command reports what the constructor throws and exits
Construct ==
    /\ pc = "start"
    /\ adjuster' = SfMetadataAdjuster(parseArgs(argv.include), parseArgs(argv.exclude), argv.all)
    /\ pc' = IF adjuster' = InvalidConfiguration THEN "exit" ELSE "constructed"
    /\ stats' = IF adjuster' = InvalidConfiguration THEN stats ELSE Stats(0, 0, 0, 0, 0)
    /\ UNCHANGED <<argv, disk, tree, call, metadataFiles, fileIndex, io>>
    /\ UNCHANGED <<fileXml, originalXml, sortedXml, rebuilt, sorterVars, entityVars, toolVars>>

\* createFileBackup(files, basePath), and what the caller's catch does when it throws
Backup(files, failedAt) ==
    /\ disk' = CopyInto(disk, CopiedFiles(files, failedAt))
    /\ io' = [io EXCEPT !.read = @ \cup Range(CopiedFiles(files, failedAt))]
    /\ pc' = IF failedAt = 0 THEN "loop" ELSE "exit"
\* process and processSpecificFiles from the selection of the files to the loop
Start(files, skipped, stats_) ==
    /\ metadataFiles' = files
    /\ stats' = [stats_ EXCEPT !.skipped = @ + skipped]
    /\ fileIndex' = 1
    /\ IF files = <<>> THEN pc' = "done" /\ UNCHANGED <<disk, io>>
       ELSE IF argv.backup THEN Backup(files, FirstUncopied(disk, files))
       ELSE pc' = "loop" /\ UNCHANGED <<disk, io>>
    /\ UNCHANGED <<argv, adjuster, tree>>
    /\ UNCHANGED <<fileXml, originalXml, sortedXml, rebuilt, sorterVars, entityVars, toolVars>>
Select(candidates, stats_) ==
    Start(findMetadataFiles(adjuster, candidates), SkippedCount(adjuster, candidates), stats_)

\* process(createBackup) up to its loop
process ==
    /\ call' = [method |-> "process", files |-> <<>>]
    /\ Select(Walked(disk), stats)
Process == pc = "constructed" /\ process

\* processSpecificFiles(files, createBackup) up to its loop
processSpecificFiles(files) ==
    /\ call' = [method |-> "processSpecificFiles", files |-> files]
    /\ IF Len(files) = 0
       THEN /\ stats' = Stats(0, 0, 0, 0, 0)
            /\ pc' = "done"
            /\ UNCHANGED <<argv, adjuster, disk, tree, metadataFiles, fileIndex, io>>
            /\ UNCHANGED <<fileXml, originalXml, sortedXml, rebuilt, sorterVars, entityVars, toolVars>>
       ELSE Select(Listed(disk, files), Stats(0, 0, 0, 0, 0))
ProcessSpecificFiles == pc = "constructed" /\ \E files \in ChangedFiles : processSpecificFiles(files)

\* await this.processFile(file), for the next file of the loop
AfterProcessFile_StopsAtError(file, sorted, update) ==
    /\ disk' = IF update THEN [disk EXCEPT ![file] = sorted] ELSE disk
    /\ stats' = StatsAfter(stats, relative(folderPath, file), sorted, update)
    /\ io' = IoAfter(io, file, sorted, update)
    /\ fileIndex' = IF sorted.k = "str" THEN fileIndex + 1 ELSE Len(metadataFiles) + 1
AfterProcessFile(file, sorted, update) ==
    /\ disk' = IF update THEN [disk EXCEPT ![file] = sorted] ELSE disk
    /\ stats' = StatsAfter(stats, relative(folderPath, file), sorted, update)
    /\ io' = IoAfter(io, file, sorted, update)
    /\ fileIndex' = fileIndex + 1
ProcessNextFile ==
    /\ pc = "loop"
    /\ fileIndex <= Len(metadataFiles)
    /\ originalXml' = disk[metadataFiles[fileIndex]]
    /\ sortedXml' = SortedOrError(originalXml')
    /\ AfterProcessFile(metadataFiles[fileIndex], sortedXml', needsUpdate(originalXml', sortedXml'))
    /\ UNCHANGED <<argv, adjuster, tree, call, pc, metadataFiles>>
    /\ UNCHANGED <<fileXml, rebuilt, sorterVars, entityVars, toolVars>>

\* the loop is over: displaySummary()
DisplaySummary ==
    /\ pc = "loop"
    /\ fileIndex > Len(metadataFiles)
    /\ pc' = "done"
    /\ UNCHANGED <<argv, adjuster, disk, tree, call, metadataFiles, fileIndex, io>>
    /\ UNCHANGED adjusterVars
    /\ UNCHANGED <<sorterVars, entityVars, toolVars>>

NextProcess == Construct \/ Process \/ ProcessSpecificFiles \/ ProcessNextFile \/ DisplaySummary
SpecProcess == InitProcess /\ [][NextProcess]_vars

----------------------------------------------------------------------------
(* The command's run(): --git-depth and getChangedMetadataFiles *)

MaxCommits == 3

\* The --git-depth values given (0: the flag is absent).
GitDepths == { 0, 1, MaxCommits }

\* What git diff --name-only prints, resolved against the target directory.
DiffOutputs == { <<>>, << Paths[1] >>, << Paths[6], Paths[5], Paths[1], Paths[3] >> }

\* The repository as the three git commands see it: rev-parse fails outside a
\* repository, rev-list --count HEAD fails when there is no commit, diff may fail.
Repository(isRepository, commitCount, diffFails, diff) ==
    [isRepository |-> isRepository, commitCount |-> commitCount, diffFails |-> diffFails, diff |-> diff]
Repositories ==
    { Repository(FALSE, 0, FALSE, <<>>) }
    \cup { Repository(TRUE, n, f, d) : n \in 0..MaxCommits, f \in BOOLEAN, d \in DiffOutputs }

Min(a, b) == IF a <= b THEN a ELSE b

\* Math.min(gitDepth, commitCount - 1)
actualDepth(gitDepth, git_) == Min(gitDepth, git_.commitCount - 1)

\* A git command throws: the catch returns [].
GitThrows(gitDepth, git_) ==
    \/ ~git_.isRepository
    \/ git_.commitCount = 0
    \/ actualDepth(gitDepth, git_) > 0 /\ git_.diffFails

getChangedMetadataFiles(gitDepth, git_, disk_) ==
    IF GitThrows(gitDepth, git_) \/ actualDepth(gitDepth, git_) <= 0 THEN <<>>
    ELSE SelectSeq(git_.diff, LAMBDA file : isMetadataFile(file) /\ existsSync(disk_, file))

RunArgv(backup, gitDepth) ==
    [include |-> Undefined, exclude |-> Undefined, all |-> FALSE, backup |-> backup, gitDepth |-> gitDepth]

InitRun ==
    /\ SorterIdle
    /\ EntitiesIdle
    /\ AdjusterIdle
    /\ targetDir = Undefined /\ result = Undefined /\ exitCode = Undefined
    /\ metadata = Undefined /\ removedItems = Undefined /\ issues = Undefined
    /\ SourceIdle /\ EnsureIdle
    /\ argv \in { RunArgv(b, g) : b \in BOOLEAN, g \in GitDepths }
    /\ disk \in Disks({ Str(UnsortedFile) })
    /\ tree = disk
    /\ git \in Repositories
    /\ changedFiles = Undefined
    /\ adjuster = Undefined
    /\ call = Undefined
    /\ pc = "run"
    /\ metadataFiles = <<>>
    /\ fileIndex = 0
    /\ io = [read |-> {}, written |-> {}, failed |-> {}]

\* run() up to the construction of the adjuster: with --git-depth the changed files
\* are asked for, and an empty list ends the command
Run ==
    /\ pc = "run"
    /\ changedFiles' = IF argv.gitDepth > 0 THEN Arr(getChangedMetadataFiles(argv.gitDepth, git, disk))
                       ELSE changedFiles
    /\ pc' = IF changedFiles'.k = "arr" /\ Len(changedFiles'.v) = 0 THEN "returned" ELSE "start"
    /\ UNCHANGED <<argv, adjuster, disk, tree, call, metadataFiles, fileIndex, io, git>>
    /\ UNCHANGED <<sorterVars, entityVars, adjusterVars, conflictVars, integrityVars, source, ensureVars>>

\* await adjuster.process(parsed.backup)
RunProcess == pc = "constructed" /\ changedFiles.k = "undefined" /\ process

\* await adjuster.processSpecificFiles(changedFiles, parsed.backup)
RunProcessSpecificFiles == pc = "constructed" /\ changedFiles.k = "arr" /\ processSpecificFiles(changedFiles.v)

NextRun == Run \/ Construct \/ RunProcess \/ RunProcessSpecificFiles \/ ProcessNextFile \/ DisplaySummary
SpecRun == InitRun /\ [][NextRun]_vars

----------------------------------------------------------------------------
(* The detect git conflicts command *)

REJ == <<".", "r", "e", "j">>
DEFAULT_SKIP_DIRECTORIES == { DOT_GIT, NODE_MODULES }
\* The paths the command's file systems may hold, in the order of the traversal.
SubDir == join(folderPath, << <<"s", "u", "b">> >>)
RejPaths ==
    << join(folderPath, << DOT_GIT, <<"g", ".", "r", "e", "j">> >>),
       join(folderPath, << <<"a", ".", "r", "e", "j">> >>),
       join(folderPath, << <<"b", ".", "r", "e", "j", ".", "o", "r", "i", "g">> >>),
       join(folderPath, << NODE_MODULES, <<"n", ".", "r", "e", "j">> >>),
       join(SubDir, << <<"c", ".", "r", "e", "j">> >>),
       join(SubDir, << <<"d", "e", "e", "p">>, <<"d", ".", "r", "e", "j">> >>),
       join(SubDir, << <<"r", "e", "j">> >>) >>
\* what readdirSync may throw
EACCES == [k |-> "throw", v |-> <<"E", "A", "C", "C", "E", "S">>]
EIO == [k |-> "throw", v |-> <<"E", "I", "O">>]

IsUnder(p, dir) == Len(p) > Len(dir) /\ SubSeq(p, 1, Len(dir)) = dir
isFile(disk_, p) == p \in Range(RejPaths) /\ disk_[p] # Undefined
isDirectory(disk_, dir) ==
    dir = folderPath \/ \E p \in Range(RejPaths) : disk_[p] # Undefined /\ IsUnder(p, dir)
\* ensureDirectory(targetDir, onError): the error, if any
ensureDirectory(disk_, dir) ==
    IF ~(isFile(disk_, dir) \/ isDirectory(disk_, dir)) THEN "does not exist"
    ELSE IF ~isDirectory(disk_, dir) THEN "not a directory"
    ELSE "ok"

\* findFilesBySuffix(dir, suffix): visit enters the directories whose name is not
\* skipped; a directory that cannot be read for lack of permission contributes nothing,
\* any other error of readdirSync is thrown to the caller
normalizedSuffix(suffix) == IF suffix # <<>> /\ Head(suffix) = "." THEN suffix ELSE <<".">> \o suffix
Visited(p, dir) ==
    /\ IsUnder(p, dir)
    /\ \A i \in (Len(dir) + 1)..(Len(p) - 1) : p[i] \notin DEFAULT_SKIP_DIRECTORIES
ReadsDirectory(disk_, p, dir, sub) ==
    Visited(p, dir) /\ disk_[sub] # Undefined /\ (sub = dir \/ IsUnder(sub, dir)) /\ IsUnder(p, sub)
findFilesBySuffix(disk_, dir, suffix) ==
    SelectSeq(RejPaths, LAMBDA p :
        /\ disk_[p] # Undefined
        /\ Visited(p, dir)
        /\ ~ReadsDirectory(disk_, p, dir, SubDir)
        /\ EndsWith(basename(p), normalizedSuffix(suffix)))
findFilesThrows(disk_, dir) ==
    /\ disk_[SubDir] = EIO
    /\ isDirectory(disk_, SubDir)
    /\ (SubDir = dir \/ IsUnder(SubDir, dir))

\* const conflictCount = 0;
conflictCount == 0
ConflictResult(count, conflictFiles) == [count |-> count, conflictFiles |-> conflictFiles]

RejDisks ==
    { [ p \in Range(RejPaths) \cup { SubDir } |->
          IF p = SubDir THEN err ELSE IF p \in present THEN Str(<<>>) ELSE Undefined ] :
      present \in SUBSET Range(RejPaths), err \in { Undefined, EACCES, EIO } }
TargetDirs == { folderPath, SubDir, RejPaths[2], << <<"m", "i", "s", "s", "i", "n", "g">> >> }

InitConflicts ==
    /\ SorterIdle
    /\ EntitiesIdle
    /\ AdjusterIdle
    /\ disk \in RejDisks
    /\ targetDir \in TargetDirs
    /\ result = Undefined
    /\ exitCode = Undefined
    /\ argv = Undefined /\ adjuster = Undefined /\ tree = Undefined /\ call = Undefined
    /\ pc = "none" /\ metadataFiles = <<>> /\ fileIndex = 0 /\ io = Undefined
    /\ metadata = Undefined /\ removedItems = Undefined /\ issues = Undefined
    /\ RunIdle /\ SourceIdle /\ EnsureIdle

\* DetectGitConflicts.run(): this.error(..., { exit: 1 }) ends the command
Reported(count, conflictFiles) ==
    /\ result' = ConflictResult(count, conflictFiles)
    /\ exitCode' = IF count > 0 THEN Num(1) ELSE Num(0)
DetectGitConflicts ==
    /\ exitCode = Undefined
    /\ IF ensureDirectory(disk, targetDir) # "ok" \/ findFilesThrows(disk, targetDir)
       THEN exitCode' = Num(1) /\ result' = result
       ELSE Reported(conflictCount, findFilesBySuffix(disk, targetDir, REJ))
    /\ UNCHANGED <<targetDir, integrityVars, sorterVars, entityVars, adjusterVars, processVars>>
    /\ UNCHANGED <<runVars, source, ensureVars>>

NextConflicts == DetectGitConflicts
SpecConflicts == InitConflicts /\ [][NextConflicts]_vars

----------------------------------------------------------------------------
(* ensureDirectory with its error handler *)

DoesNotExist ==
    <<"T", "a", "r", "g", "e", "t", " ", "d", "i", "r", "e", "c", "t", "o", "r", "y", " ",
      "d", "o", "e", "s", " ", "n", "o", "t", " ", "e", "x", "i", "s", "t", ":", " ">>
NotADirectory ==
    <<"T", "a", "r", "g", "e", "t", " ", "p", "a", "t", "h", " ", "i", "s", " ",
      "n", "o", "t", " ", "a", " ", "d", "i", "r", "e", "c", "t", "o", "r", "y", ":", " ">>
\* The path as the template literal prints it.
PathString(p) == Flatten([ i \in 1..Len(p) |-> <<"/">> \o p[i] ])

\* The handlers a caller may pass: none, one that throws (SfCommand#error, the test's
\* handler), one that returns although its type says never.
HandlerError == <<"h", "a", "n", "d", "l", "e", "r">>
ErrorHandlers == { "absent", "throws", "returns" }

\* The statements after a failed test: if (onError) onError(message, { exit: 1 });
\* throw new Error(message)
Fail_TrustsHandler(message, onError_) ==
    IF onError_ = "absent" THEN [calls |-> <<>>, ended |-> "throw", error |-> message]
    ELSE [calls |-> << [message |-> message, exit |-> 1] >>,
          ended |-> IF onError_ = "throws" THEN "throw" ELSE "return",
          error |-> IF onError_ = "throws" THEN HandlerError ELSE <<>>]
Fail(message, onError_) ==
    IF onError_ = "absent" THEN [calls |-> <<>>, ended |-> "throw", error |-> message]
    ELSE [calls |-> << [message |-> message, exit |-> 1] >>,
          ended |-> "throw",
          error |-> IF onError_ = "throws" THEN HandlerError ELSE message]

\* ensureDirectory(targetDir, onError): the calls of the handler and how the function ends
EnsureDirectoryOutcome(disk_, dir, onError_) ==
    IF ~(isFile(disk_, dir) \/ isDirectory(disk_, dir)) THEN Fail(DoesNotExist \o PathString(dir), onError_)
    ELSE IF ~isDirectory(disk_, dir) THEN Fail(NotADirectory \o PathString(dir), onError_)
    ELSE [calls |-> <<>>, ended |-> "return", error |-> <<>>]

InitEnsure ==
    /\ SorterIdle
    /\ EntitiesIdle
    /\ AdjusterIdle
    /\ disk \in { d \in RejDisks : d[SubDir] = Undefined }
    /\ tree = disk
    /\ argv = Undefined /\ adjuster = Undefined /\ call = Undefined /\ pc = "start"
    /\ metadataFiles = <<>> /\ fileIndex = 0
    /\ io = [read |-> {}, written |-> {}, failed |-> {}]
    /\ targetDir \in TargetDirs
    /\ result = Undefined /\ exitCode = Undefined
    /\ metadata = Undefined /\ removedItems = Undefined /\ issues = Undefined
    /\ RunIdle /\ SourceIdle
    /\ onError \in ErrorHandlers
    /\ outcome = Undefined

CallEnsureDirectory ==
    /\ outcome = Undefined
    /\ outcome' = EnsureDirectoryOutcome(disk, targetDir, onError)
    /\ UNCHANGED <<onError, conflictVars, integrityVars, runVars, source>>
    /\ UNCHANGED <<sorterVars, entityVars, adjusterVars, processVars>>

NextEnsure == CallEnsureDirectory
SpecEnsure == InitEnsure /\ [][NextEnsure]_vars

----------------------------------------------------------------------------
(* metadata-integrity.ts: findIntegrityIssuesInMetadata *)

Word ==
    [ readable |-> <<"r", "e", "a", "d", "a", "b", "l", "e">>,
      editable |-> <<"e", "d", "i", "t", "a", "b", "l", "e">>,
      pageAccesses |-> <<"p", "a", "g", "e", "A", "c", "c", "e", "s", "s", "e", "s">>,
      apexPage |-> <<"a", "p", "e", "x", "P", "a", "g", "e">>,
      true |-> <<"t", "r", "u", "e">>,
      false |-> <<"f", "a", "l", "s", "e">>,
      trueUpper |-> <<"T", "R", "U", "E">>,
      Old |-> <<"O", "l", "d">>,
      Live |-> <<"L", "i", "v", "e">>,
      classDetail |-> <<"C", "l", "a", "s", "s", " ", "a", "c", "c", "e", "s", "s", " ", "s", "t", "i", "l", "l",
          " ", "e", "n", "a", "b", "l", "e", "d", " ", "f", "o", "r", " ", "r", "e", "m",
          "o", "v", "e", "d", " ", "A", "p", "e", "x", " ", "c", "l", "a", "s", "s", " ",
          "'">>,
      fieldDetail |-> <<"F", "i", "e", "l", "d", " ", "p", "e", "r", "m", "i", "s", "s", "i", "o", "n", " ", "r",
          "e", "f", "e", "r", "e", "n", "c", "e", "s", " ", "r", "e", "m", "o", "v", "e",
          "d", " ", "f", "i", "e", "l", "d", " ", "'">>,
      pageDetail |-> <<"P", "a", "g", "e", " ", "a", "c", "c", "e", "s", "s", " ", "s", "t", "i", "l", "l", " ",
          "e", "n", "a", "b", "l", "e", "d", " ", "f", "o", "r", " ", "r", "e", "m", "o",
          "v", "e", "d", " ", "V", "i", "s", "u", "a", "l", "f", "o", "r", "c", "e", " ",
          "p", "a", "g", "e", " ", "'">> ]

\* candidate.toLowerCase()
UpperCase ==
    { "A", "B", "C", "D", "E", "F", "G", "H", "I", "J", "K", "L", "M", "N", "O", "P", "Q", "R",
      "S", "T", "U", "V", "W", "X", "Y", "Z" }
toLowerCase(str) ==
    [ i \in DOMAIN str |->
        IF str[i] \in UpperCase THEN AsciiOrder[Code[str[i]] + (Code["a"] - Code["A"])] ELSE str[i] ]

\* access?.apexClass
Optional(x, key) == IF x.k \in { "null", "undefined" } THEN Undefined ELSE Get(x, key)
toArray(value) ==
    IF ~Truthy(value) THEN <<>> ELSE IF value.k = "arr" THEN value.v ELSE << value >>
FirstDefined(values) ==
    IF \A i \in DOMAIN values : values[i] = Undefined THEN Undefined
    ELSE values[FirstOrZero({ i \in DOMAIN values : values[i] # Undefined })]
RECURSIVE firstString(_)
firstString(value) ==
    IF ~Truthy(value) THEN Undefined
    ELSE IF value.k = "arr" THEN FirstDefined([ i \in DOMAIN value.v |-> firstString(value.v[i]) ])
    ELSE IF value.k = "str" THEN value
    ELSE IF value.k = "obj" /\ Get(value, K_char).k = "str" THEN Get(value, K_char)
    ELSE Undefined
\* isTrue: Boolean(candidate) is false for the one candidate that is not a string, undefined
IsTrueCandidate(candidate) == candidate.k = "str" /\ toLowerCase(candidate.v) = Word.true
isTrue_Truthy(value) == Truthy(value)
isTrue(value) == IF ~Truthy(value) THEN FALSE ELSE IsTrueCandidate(firstString(value))

\* buildRemovedMetadataIndex(removedItems): for each type that has items, its keys
buildRemovedMetadataIndex(items) ==
    [ type \in { items[i].type : i \in DOMAIN items } |->
        { items[i].referenceKey : i \in { j \in DOMAIN items : items[j].type = type } } ]

IntegrityIssue(type, missingItem, referencingFile, detail) ==
    [type |-> type, missingItem |-> missingItem, referencingFile |-> referencingFile,
     detail |-> detail \o missingItem \o <<"'">>]
\* One block of findIntegrityIssuesInMetadata: the entries under a key whose name is
\* in the index of a type and one of whose flags is true, as issues.
Reported_(entry, nameKey, flagKeys, keys) ==
    /\ firstString(Optional(entry, nameKey)) # Undefined
    /\ \E flag \in flagKeys : isTrue(Optional(entry, flag))
    /\ firstString(Optional(entry, nameKey)).v \in keys
IssuesFor(reported, nameKey, issueType, filePath, detail) ==
    [ i \in DOMAIN reported |->
        IntegrityIssue(issueType, firstString(Optional(reported[i], nameKey)).v, filePath, detail) ]
BlockIssues(index, type, entries, nameKey, flagKeys, issueType, filePath, detail) ==
    IF type \notin DOMAIN index THEN <<>>
    ELSE IssuesFor(SelectSeq(entries, LAMBDA e : Reported_(e, nameKey, flagKeys, index[type])),
                   nameKey, issueType, filePath, detail)
findIntegrityIssuesInMetadata(metadata_, filePath, removedIndex) ==
    BlockIssues(removedIndex, "ApexClass", toArray(Get(metadata_, Lit.classAccesses)),
                Lit.apexClass, { Lit.enabled }, "MissingApexClassReference", filePath, Word.classDetail)
    \o BlockIssues(removedIndex, "CustomField", toArray(Get(metadata_, Lit.fieldPermissions)),
                Lit.field, { Word.readable, Word.editable }, "MissingCustomFieldReference", filePath,
                Word.fieldDetail)
    \o BlockIssues(removedIndex, "VisualforcePage", toArray(Get(metadata_, Word.pageAccesses)),
                Word.apexPage, { Lit.enabled }, "MissingVisualforcePageReference", filePath,
                Word.pageDetail)

MaxEntries == 2

\* An entry as the parser builds it: each child element's texts under its name.
Text1(str) == Arr(<< Str(str) >>)
Entry(fields) == Obj(fields)
AccessEntries(nameKey) ==
    { Entry(<< <<nameKey, Text1(Word.Old)>>, <<Lit.enabled, Text1(Word.true)>> >>),
      Entry(<< <<nameKey, Text1(Word.Old)>>, <<Lit.enabled, Text1(Word.false)>> >>),
      Entry(<< <<Lit.enabled, Text1(Word.trueUpper)>>, <<nameKey, Text1(Word.Old)>> >>),
      Entry(<< <<nameKey, Text1(Word.Old)>> >>),
      Entry(<< <<nameKey, Text1(Word.Live)>>, <<Lit.enabled, Text1(Word.true)>> >>),
      Entry(<< <<Lit.enabled, Text1(Word.true)>> >>),
      Str(<<>>) }
FieldEntries ==
    { Entry(<< <<Word.editable, Text1(Word.true)>>, <<Lit.field, Text1(Word.Old)>>,
               <<Word.readable, Text1(Word.true)>> >>),
      Entry(<< <<Word.editable, Text1(Word.false)>>, <<Lit.field, Text1(Word.Old)>>,
               <<Word.readable, Text1(Word.true)>> >>),
      Entry(<< <<Word.editable, Text1(Word.true)>>, <<Lit.field, Text1(Word.Old)>>,
               <<Word.readable, Text1(Word.false)>> >>),
      Entry(<< <<Word.editable, Text1(Word.false)>>, <<Lit.field, Text1(Word.Old)>>,
               <<Word.readable, Text1(Word.false)>> >>),
      Entry(<< <<Word.editable, Text1(Word.true)>>, <<Lit.field, Text1(Word.Live)>>,
               <<Word.readable, Text1(Word.true)>> >>),
      Entry(<< <<Lit.field, Text1(Word.Old)>> >>),
      Str(<<>>) }
EntryLists(entries, n) == [1..n -> entries]
\* the parsed metadata: a key for each kind that has entries
KeyOf(key, entries) == IF entries = <<>> THEN <<>> ELSE << <<key, Arr(entries)>> >>
MetadataOf(classAccesses, fieldPermissions, pageAccesses) ==
    Obj(KeyOf(Lit.classAccesses, classAccesses) \o KeyOf(Lit.fieldPermissions, fieldPermissions)
        \o KeyOf(Word.pageAccesses, pageAccesses))
Metadatas ==
    UNION { { MetadataOf(c, f, p) : c \in EntryLists(AccessEntries(Lit.apexClass), n[1]),
                                    f \in EntryLists(FieldEntries, n[2]),
                                    p \in EntryLists(AccessEntries(Word.apexPage), n[3]) } :
            n \in { m \in (0..MaxEntries) \X (0..MaxEntries) \X (0..MaxEntries) :
                      m[1] + m[2] + m[3] <= MaxEntries } }
RemovedItem(type, referenceKey) == [type |-> type, referenceKey |-> referenceKey]
RemovedLists ==
    { SelectSeq(<< RemovedItem("ApexClass", Word.Old), RemovedItem("CustomField", Word.Old),
                   RemovedItem("VisualforcePage", Word.Old) >>, LAMBDA item : item.type \in types) :
      types \in SUBSET { "ApexClass", "CustomField", "VisualforcePage" } }
IntegrityFile == <<"a", ".", "p", "r", "o", "f", "i", "l", "e", "-", "m", "e", "t", "a", ".", "x", "m",
          "l">>

InitIntegrity ==
    /\ SorterIdle
    /\ EntitiesIdle
    /\ AdjusterIdle
    /\ ProcessIdle
    /\ targetDir = Undefined /\ result = Undefined /\ exitCode = Undefined
    /\ metadata \in Metadatas
    /\ removedItems \in RemovedLists
    /\ issues = Undefined
    /\ RunIdle /\ SourceIdle /\ EnsureIdle

CallFindIntegrityIssuesInMetadata ==
    /\ issues = Undefined
    /\ issues' = Arr(findIntegrityIssuesInMetadata(metadata, IntegrityFile,
                                                   buildRemovedMetadataIndex(removedItems)))
    /\ UNCHANGED <<metadata, removedItems, conflictVars, sorterVars, entityVars, adjusterVars,
                   processVars, runVars, source, ensureVars>>

NextIntegrity == CallFindIntegrityIssuesInMetadata
SpecIntegrity == InitIntegrity /\ [][NextIntegrity]_vars

----------------------------------------------------------------------------
(* metadata-integrity.ts: the scans of raw content *)

\* The backspace character (U+0008), which "\b" denotes in a template literal.
BS == "BS"

\* \b at position i of s (between s[i - 1] and s[i])
WordBoundary(s, i) ==
    (i > 1 /\ s[i - 1] \in WordChars) # (i <= Len(s) /\ s[i] \in WordChars)
At(s, pos, pat) == pos + Len(pat) - 1 <= Len(s) /\ SubSeq(s, pos, pos + Len(pat) - 1) = pat

\* new RegExp(`\\b${escapeRegExp(text)}\\b`, "g").test(content), on a fresh pattern
TestWord(content, text) ==
    \E i \in 1..(Len(content) - Len(text) + 1) :
        /\ At(content, i, text)
        /\ WordBoundary(content, i)
        /\ WordBoundary(content, i + Len(text))

\* new RegExp(`<tag>\\s*${escapeRegExp(text)}\\s*</tag>`, "gi").test(content)
AfterSpace(s, pos, pat) == At(s, SkipWhile(s, pos, Whitespace), pat)
TestTag(content, tag, text) ==
    \E i \in 1..Len(content) :
        /\ At(toLowerCase(content), i, <<"<">> \o tag \o <<">">>)
        /\ AfterSpace(toLowerCase(content), i + Len(tag) + 2, toLowerCase(text))
        /\ AfterSpace(toLowerCase(content),
                      SkipWhile(toLowerCase(content), i + Len(tag) + 2, Whitespace) + Len(text),
                      <<"<", "/">> \o tag \o <<">">>)

WordPattern(text) == [kind |-> "word", tag |-> <<>>, text |-> text]
TagPattern(tag, text) == [kind |-> "tag", tag |-> tag, text |-> text]
Test(pattern, content) ==
    IF pattern.kind = "word" THEN TestWord(content, pattern.text)
    ELSE TestTag(content, pattern.tag, pattern.text)

\* fieldName.split("."): the object name and the API name, undefined or a string each
LastDot(fieldName) ==
    IF \E i \in DOMAIN fieldName : fieldName[i] = "."
    THEN CHOOSE i \in DOMAIN fieldName :
            fieldName[i] = "." /\ \A j \in (i + 1)..Len(fieldName) : fieldName[j] # "."
    ELSE 0
splitFieldReference(fieldName) ==
    IF LastDot(fieldName) = 0 THEN << Undefined, Str(fieldName) >>
    ELSE << Str(SubSeq(fieldName, 1, LastDot(fieldName) - 1)),
            Str(SubSeq(fieldName, LastDot(fieldName) + 1, Len(fieldName))) >>

Context ==
  [
    Flow |-> <<"F", "l", "o", "w">>,
    FormulaField |-> <<"F", "o", "r", "m", "u", "l", "a", " ", "F", "i", "e", "l", "d">>,
    Layout |-> <<"L", "a", "y", "o", "u", "t">>,
    Flexipage |-> <<"F", "l", "e", "x", "i", "p", "a", "g", "e">>,
    ValidationRule |-> <<"V", "a", "l", "i", "d", "a", "t", "i", "o", "n", " ", "R", "u", "l",
        "e">>,
    FieldSet |-> <<"F", "i", "e", "l", "d", " ", "S", "e", "t">>,
    RecordType |-> <<"R", "e", "c", "o", "r", "d", " ", "T", "y", "p", "e">>,
    CompactLayout |-> <<"C", "o", "m", "p", "a", "c", "t", " ", "L", "a", "y", "o", "u", "t">> ]
Contexts == { Context[n] : n \in DOMAIN Context }
Tag ==
    [ field |-> <<"f", "i", "e", "l", "d">>,
      fields |-> <<"f", "i", "e", "l", "d", "s">>,
      picklist |-> <<"p", "i", "c", "k", "l", "i", "s", "t">> ]

\* The patterns pushed under `if (apiName)` and under `if (objectName && apiName)`.
IfApi(apiName, patterns) == IF Truthy(apiName) THEN patterns ELSE <<>>
IfBoth(objectName, apiName, patterns) ==
    IF Truthy(objectName) /\ Truthy(apiName) THEN patterns ELSE <<>>
Qualified(objectName, apiName) == objectName.v \o <<".">> \o apiName.v

PatternsFor(fieldName, context, objectName, apiName) ==
    IF context \in { Context.Flow, Context.Flexipage } THEN
        << WordPattern(fieldName) >> \o IfApi(apiName, << WordPattern(apiName.v) >>)
    ELSE IF context = Context.FormulaField THEN
        IfBoth(objectName, apiName, << WordPattern(Qualified(objectName, apiName)) >>)
        \o IfApi(apiName, << WordPattern(apiName.v) >>)
    ELSE IF context = Context.Layout THEN
        IfApi(apiName, << TagPattern(Tag.field, apiName.v), WordPattern(apiName.v) >>)
    ELSE IF context = Context.ValidationRule THEN
        IfApi(apiName, << WordPattern(apiName.v) >>)
        \o IfBoth(objectName, apiName, << WordPattern(Qualified(objectName, apiName)) >>)
    ELSE IF context = Context.FieldSet THEN
        IfApi(apiName, << TagPattern(Tag.field, apiName.v), WordPattern(apiName.v) >>)
        \o IfBoth(objectName, apiName, << TagPattern(Tag.field, Qualified(objectName, apiName)) >>)
    ELSE IF context = Context.RecordType THEN
        IfApi(apiName, << TagPattern(Tag.picklist, apiName.v), TagPattern(Tag.field, apiName.v),
                          WordPattern(apiName.v) >>)
        \o IfBoth(objectName, apiName, << WordPattern(Qualified(objectName, apiName)) >>)
    ELSE IF context = Context.CompactLayout THEN
        IfApi(apiName, << TagPattern(Tag.fields, apiName.v), WordPattern(apiName.v) >>)
        \o IfBoth(objectName, apiName, << TagPattern(Tag.fields, Qualified(objectName, apiName)) >>)
    ELSE <<>>
buildFieldReferencePatterns(fieldName, context) ==
    PatternsFor(fieldName, context, splitFieldReference(fieldName)[1], splitFieldReference(fieldName)[2])

equalsIgnoreCase(a, b) == toLowerCase(a) = toLowerCase(b)

\* removedIndex.get(type): the items of the type, the first of each referenceKey, in
\* the order of insertion
IndexEntries(items, type) ==
    SelectSeq([ i \in DOMAIN items |-> [at |-> i, item |-> items[i]] ],
              LAMBDA e : /\ e.item.type = type
                         /\ \A j \in 1..(e.at - 1) :
                               ~(items[j].type = type /\ items[j].referenceKey = e.item.referenceKey))

\* metadataObject ? (Array.isArray(metadataObject) ? metadataObject : [metadataObject]) : undefined,
\* and undefined for an empty list
ObjectScopes(metadataObject) ==
    IF ~Truthy(metadataObject) THEN Undefined
    ELSE IF metadataObject.k = "arr" THEN (IF Len(metadataObject.v) > 0 THEN metadataObject ELSE Undefined)
    ELSE Arr(<< metadataObject >>)

\* if (objectScopes && objectName && !objectScopes.some(...)) continue
OutOfScope_Never(objectScopes, objectName) == FALSE
OutOfScope(objectScopes, objectName) ==
    /\ objectScopes # Undefined
    /\ Truthy(objectName)
    /\ ~\E i \in DOMAIN objectScopes.v : equalsIgnoreCase(objectScopes.v[i].v, objectName.v)

FieldReported(fieldName, content, context, objectScopes) ==
    /\ ~OutOfScope(objectScopes, splitFieldReference(fieldName)[1])
    /\ \E i \in DOMAIN buildFieldReferencePatterns(fieldName, context) :
           Test(buildFieldReferencePatterns(fieldName, context)[i], content)

FieldDetail == <<" ", "r", "e", "f", "e", "r", "e", "n", "c", "e", "s", " ", "r", "e", "m", "o", "v", "e", "d", " ",
      "f", "i", "e", "l", "d", " ", "'">>
findCustomFieldIssuesInContent(rawContent, filePath, removedItems_, context, metadataObject) ==
    LET fieldIndex == IndexEntries(removedItems_, "CustomField")
        reported == SelectSeq(fieldIndex, LAMBDA e :
                        FieldReported(e.item.referenceKey, rawContent, context, ObjectScopes(metadataObject)))
    IN  [ i \in DOMAIN reported |->
            IntegrityIssue("MissingCustomFieldReference", reported[i].item.referenceKey, filePath,
                           context \o FieldDetail) ]

\* item.sourceFile.startsWith("manual:")
Manual == <<"m", "a", "n", "u", "a", "l", ":">>
isManualRemovedItem(item) == At(item.sourceFile, 1, Manual)

\* new RegExp(`\bkeyword\s+${escapeRegExp(className)}\b`, "i").test(content): in the
\* template literal \b is a backspace and \s the letter s, so the pattern is a
\* backspace, the keyword, one or more letters s, the name and a backspace
TestDefinition(content, keyword, className) ==
    \E i \in 1..Len(content), j \in 1..Len(content) :
        /\ content[i] = BS
        /\ At(toLowerCase(content), i + 1, keyword)
        /\ j > i + 1 + Len(keyword)
        /\ \A k \in (i + 1 + Len(keyword))..(j - 1) : toLowerCase(content)[k] = "s"
        /\ At(toLowerCase(content), j, toLowerCase(className) \o << BS >>)

Keyword ==
    [ class |-> <<"c", "l", "a", "s", "s">>,
      interface |-> <<"i", "n", "t", "e", "r", "f", "a", "c", "e">>,
      enum |-> <<"e", "n", "u", "m">> ]
DotCls == <<".", "c", "l", "s">>
isLikelyApexClassDefinition(filePath, content, className) ==
    \/ EndsWith(toLowerCase(filePath),
                <<"/", "c", "l", "a", "s", "s", "e", "s", "/">> \o toLowerCase(className) \o DotCls)
    \/ EndsWith(toLowerCase(filePath), toLowerCase(className) \o DotCls)
    \/ \E n \in DOMAIN Keyword : TestDefinition(content, Keyword[n], className)

SourceDetail == <<"S", "o", "u", "r", "c", "e", " ", "r", "e", "f", "e", "r", "e", "n", "c", "e", "s", " ",
      "r", "e", "m", "o", "v", "e", "d", " ", "A", "p", "e", "x", " ", "c", "l", "a", "s", "s", " ", "'">>
findIntegrityIssuesInSource(rawContent, filePath, removedItems_) ==
    LET classIndex == IndexEntries(removedItems_, "ApexClass")
        reported == SelectSeq(classIndex, LAMBDA e :
                        /\ TestWord(rawContent, e.item.referenceKey)
                        /\ ~(/\ isManualRemovedItem(e.item)
                             /\ isLikelyApexClassDefinition(filePath, rawContent, e.item.referenceKey)))
    IN  [ i \in DOMAIN reported |->
            IntegrityIssue("DanglingApexClassReference", reported[i].item.referenceKey, filePath,
                           SourceDetail) ]

MaxRemoved == 2

RemovedItemFrom(type, referenceKey, sourceFile) ==
    [type |-> type, referenceKey |-> referenceKey, sourceFile |-> sourceFile]
\* Lists of removed items of at most MaxRemoved entries; an item may be listed twice.
ListsOf(items) == UNION { [1..n -> items] : n \in 0..MaxRemoved }
\* The texts made of some of the snippets, in their order.
TextsOf(snippets) ==
    { Flatten(SelectSeq(snippets, LAMBDA t : t \in chosen)) : chosen \in SUBSET Range(snippets) }

LeadOld == <<"L", "e", "a", "d", ".", "O", "l", "d", "_", "_", "c">>
CaseOld == <<"C", "a", "s", "e", ".", "O", "l", "d", "_", "_", "c">>
LeadNew == <<"L", "e", "a", "d", ".", "N", "e", "w", "_", "_", "c">>
FieldFile == <<"l", "a", "y", "o", "u", "t", "s", "/", "L", "e", "a", "d", ".", "l", "a", "y", "o", "u", "t">>
FieldItems ==
    { RemovedItemFrom("CustomField", key, FieldFile) : key \in { LeadOld, CaseOld, LeadNew } }
FieldSnippets ==
    << <<"<", "f", "i", "e", "l", "d", ">", " ", "O", "l", "d", "_", "_", "c", "<", "/", "F", "I", "E", "L", "D", ">">>,
       <<"{", "!", "$", "R", "e", "c", "o", "r", "d", ".", "O", "l", "d", "_", "_", "c", "}", " ">>,
       <<"L", "e", "a", "d", ".", "N", "e", "w", "_", "_", "c", ";">>,
       <<"O", "l", "d", "_", "_", "c", "2", " ">> >>
\* The metadataObject argument: absent, one name, a list of names, an empty list.
ObjectArguments ==
    { Undefined, Str(<<"l", "e", "a", "d">>), Str(<<"C", "a", "s", "e">>),
      Arr(<< Str(<<"C", "A", "S", "E">>), Str(<<"L", "e", "a", "d">>) >>), Arr(<<>>) }

ManualOld == <<"m", "a", "n", "u", "a", "l", ":", "O", "l", "d">>
ManualLive == <<"m", "a", "n", "u", "a", "l", ":", "L", "i", "v", "e">>
OldCls == <<"f", "o", "r", "c", "e", "-", "a", "p", "p", "/", "c", "l", "a", "s", "s", "e", "s",
    "/", "O", "l", "d", ".", "c", "l", "s">>
ClassItems ==
    { RemovedItemFrom("ApexClass", Word.Old, ManualOld), RemovedItemFrom("ApexClass", Word.Old, OldCls),
      RemovedItemFrom("ApexClass", Word.Live, ManualLive) }
SourceFiles ==
    { OldCls,
      <<"c", "l", "a", "s", "s", "e", "s", "/", "o", "l", "d", ".", "c", "l", "s">>,
      <<"c", "l", "a", "s", "s", "e", "s", "/", "M", "y", "O", "l", "d", ".", "c", "l", "s">>,
      <<"c", "l", "a", "s", "s", "e", "s", "/", "N", "e", "w", ".", "c", "l", "s">>,
      <<"l", "w", "c", "/", "x", "/", "x", ".", "j", "s">> }
ClassSnippets ==
    << <<"p", "u", "b", "l", "i", "c", " ", "c", "l", "a", "s", "s", " ", "O", "l", "d", " ", "{", " ">>,
       <<"O", "l", "d", ".", "r", "u", "n", "(", ")", ";", " ">>,
       <<"i", "n", "t", "e", "r", "f", "a", "c", "e", " ", " ", "O", "l", "d", " ">>,
       <<"O", "l", "d", "T", "e", "s", "t", " ", "t", ";", " ">>,
       << BS >> \o <<"c", "l", "a", "s", "s", "s", "O", "l", "d">> \o << BS, " " >> >>

SourceCall(fn, rawContent, filePath, context, metadataObject) ==
    [fn |-> fn, rawContent |-> rawContent, filePath |-> filePath, context |-> context,
     metadataObject |-> metadataObject]

InitSource ==
    /\ SorterIdle
    /\ EntitiesIdle
    /\ AdjusterIdle
    /\ ProcessIdle
    /\ targetDir = Undefined /\ result = Undefined /\ exitCode = Undefined
    /\ metadata = Undefined
    /\ RunIdle /\ EnsureIdle
    /\ \/ /\ source \in { SourceCall("findCustomFieldIssuesInContent", text, FieldFile, context, object) :
                            text \in TextsOf(FieldSnippets), context \in Contexts,
                            object \in ObjectArguments }
          /\ removedItems \in ListsOf(FieldItems)
       \/ /\ source \in { SourceCall("findIntegrityIssuesInSource", text, file, <<>>, Undefined) :
                            text \in TextsOf(ClassSnippets), file \in SourceFiles }
          /\ removedItems \in ListsOf(ClassItems)
    /\ issues = Undefined

CallFindCustomFieldIssuesInContent ==
    /\ issues = Undefined
    /\ source.fn = "findCustomFieldIssuesInContent"
    /\ issues' = Arr(findCustomFieldIssuesInContent(source.rawContent, source.filePath, removedItems,
                                                   source.context, source.metadataObject))
    /\ UNCHANGED <<metadata, removedItems, conflictVars, sorterVars, entityVars, adjusterVars,
                   processVars, runVars, source, ensureVars>>

CallFindIntegrityIssuesInSource ==
    /\ issues = Undefined
    /\ source.fn = "findIntegrityIssuesInSource"
    /\ issues' = Arr(findIntegrityIssuesInSource(source.rawContent, source.filePath, removedItems))
    /\ UNCHANGED <<metadata, removedItems, conflictVars, sorterVars, entityVars, adjusterVars,
                   processVars, runVars, source, ensureVars>>

NextSource == CallFindCustomFieldIssuesInContent \/ CallFindIntegrityIssuesInSource
SpecSource == InitSource /\ [][NextSource]_vars

----------------------------------------------------------------------------
(* Properties of the sorter *)

\* s < t in code-unit order, stated without the sorter's comparison.
LexLess(s, t) ==
    \E n \in 0..Len(s) :
        /\ n <= Len(t)
        /\ SubSeq(s, 1, n) = SubSeq(t, 1, n)
        /\ \/ n = Len(s) /\ n < Len(t)
           \/ n < Len(s) /\ n < Len(t) /\ Code[s[n + 1]] < Code[t[n + 1]]

IsMapping(x) == x.k = "obj"

\* The sorted call's sequence argument, permuted by p.
Permuted(items, p) == [i \in 1..Len(items) |-> items[p[i]]]

\* The first text value of field f of element x, '' when x lacks it or it is empty.
FieldText(x, f) ==
    IF /\ IsMapping(x)
       /\ \E i \in 1..Len(x.v) : x.v[i][1] = f /\ x.v[i][2].k = "arr" /\ Len(x.v[i][2].v) > 0
                                  /\ x.v[i][2].v[1].k = "str"
    THEN (Get(x, f)).v[1].v
    ELSE <<>>

\* The context keys that have a rule, with the comparator each selects.
RuleContexts == { Lit.classAccesses, Lit.fieldPermissions } \cup NamedArrayKeys

ComparatorOf(context) ==
    IF context = Lit.classAccesses THEN [fn |-> "sortClassAccesses", arrayKey |-> <<>>]
    ELSE [fn |-> "sortArrayElements", arrayKey |-> context]

\* The sort key the rule of a context gives element x.
RuleKey(context, x) == ToPrimitive(SortValue(x, SortFields(ComparatorOf(context), x)))

SortedASequence == op = "sortXmlElements" /\ obj.k = "arr" /\ argKey.k = "str"

RECURSIVE IsReordering(_, _)
IsReordering(x, y) ==
    /\ x.k = y.k
    /\ IF x.k = "obj" THEN
           /\ Len(x.v) = Len(y.v)
           /\ { x.v[i][1] : i \in 1..Len(x.v) } = { y.v[i][1] : i \in 1..Len(y.v) }
           /\ \A i \in 1..Len(x.v) : \E j \in 1..Len(y.v) :
                  y.v[j][1] = x.v[i][1] /\ IsReordering(x.v[i][2], y.v[j][2])
       ELSE IF x.k = "arr" THEN
           /\ Len(x.v) = Len(y.v)
           /\ \E p \in Permutations(1..Len(x.v)) :
                  \A i \in 1..Len(x.v) : IsReordering(x.v[i], y.v[p[i]])
       ELSE x = y

\* C3: sortXmlElements only reorders: same key sets, permuted sequences, unchanged
\* scalars; nothing is added, dropped or duplicated.
C3_OnlyReorders == op = "sortXmlElements" => IsReordering(obj, ret)

C3_Witness ==
    /\ op = "sortXmlElements"
    /\ obj.k = "obj"
    /\ Len(obj.v) = 3
    /\ ret # obj
    /\ \E i \in 1..Len(obj.v) : obj.v[i][2].k = "arr" /\ Len(obj.v[i][2].v) = 2
                                 /\ \E j \in 1..2 : (Get(ret, obj.v[i][1])).v[j] = obj.v[i][2].v[j]

RECURSIVE KeysAscending(_)
KeysAscending(x) ==
    IF x.k = "obj" THEN
        /\ \A i \in 1..(Len(x.v) - 1) : LexLess(x.v[i][1], x.v[i + 1][1])
        /\ \A i \in 1..Len(x.v) : KeysAscending(x.v[i][2])
    ELSE IF x.k = "arr" THEN \A i \in 1..Len(x.v) : KeysAscending(x.v[i])
    ELSE TRUE

\* C5: in sortXmlElements' result the keys of every mapping, at every depth, are
\* strictly ascending in code-unit order, so uppercase-initial keys come before
\* lowercase-initial ones: Apple, Zebra, apple, zebra.
C5_KeysAscending ==
    op = "sortXmlElements"
        => /\ KeysAscending(ret)
           /\ obj \in CaseObjects => ObjectKeys(ret) = << Lit.Apple, Lit.Zebra, Lit.apple, Lit.zebra >>

C5_Witness ==
    /\ op = "sortXmlElements"
    /\ obj.k = "obj"
    /\ ObjectKeys(obj) = << Lit.parent >>
    /\ ObjectKeys(obj.v[1][2]) = << Lit.zebra, Lit.Zebra, Lit.apple, Lit.Apple >>
    /\ ObjectKeys(ret.v[1][2]) = << Lit.Apple, Lit.Zebra, Lit.apple, Lit.zebra >>

\* The field a context key sorts by.
FieldOf(context) == IF context = Lit.classAccesses THEN Lit.apexClass ELSE Lit.field

\* C6: a sequence under classAccesses or fieldPermissions comes out as its elements
\* in non-decreasing order of the field's first value, '' for an element without it.
C6_OrderedByField ==
    (SortedASequence /\ argKey.v \in { Lit.classAccesses, Lit.fieldPermissions })
        => /\ IsReordering(obj, ret)
           /\ \A i \in 1..(Len(ret.v) - 1) :
                  ~LexLess(FieldText(ret.v[i + 1], FieldOf(argKey.v)),
                           FieldText(ret.v[i], FieldOf(argKey.v)))

\* C7: a sequence under the exempt key dispositions keeps its input order, each
\* element canonicalized.
C7_ExemptKeepsOrder ==
    (SortedASequence /\ argKey.v = Lit.dispositions)
        => ret = Arr([i \in 1..Len(obj.v) |-> sortXmlElements(obj.v[i], Undefined)])

\* C8: sortXmlElements returns null for null, undefined for undefined and every
\* primitive as it is, and raises no error.
C8_NullAndPrimitivesUnchanged ==
    (op = "sortXmlElements" /\ obj.k \in {"null", "undefined", "str", "num", "bool"})
        => ret = obj /\ ret # TypeError

C8_Witness == op = "sortXmlElements" /\ obj = Null /\ ret = Null

----------------------------------------------------------------------------
(* Properties of entity masking *)

\* C4: for every text, whichever of the five entity references it holds and in
\* whatever order, restoreXmlEntities(prefixXmlEntities(x)) = x.
C4_RestoreInvertsPrefix == restored # Undefined => restored = xmlString

----------------------------------------------------------------------------
(* Properties of the pipeline *)

\* C1: the pipeline is idempotent: run on text it built itself, processFile builds
\* that same text again, byte for byte.
C1_Idempotent ==
    (stats.processed >= 2 /\ sortedXml # ParseError) => sortedXml = originalXml

\* The name in the first tag of a text that is neither a declaration nor a comment.
FirstElementAt(s, lt) ==
    SubSeq(s, lt + 1, SkipWhile(s, lt + 1, { c \in Range(s) : c \notin { " ", "\n", "/", ">" } }) - 1)
FirstElementName(s) ==
    FirstElementAt(s, FirstOrZero({ i \in 1..(Len(s) - 1) : s[i] = "<" /\ s[i + 1] \notin { "?", "!" } }))

\* C9: the text buildMetadataXml returns holds no self-closing tag, and the closing
\* tag of each element, empty ones included, carries the name of its opening tag.
C9_EmptyElementsExpanded ==
    (rebuilt # Undefined /\ rebuilt # ParseError)
        => /\ IndexOf(rebuilt.v, << "/", ">" >>, 1) = 0
           /\ parseStringPromise(rebuilt.v) # ParseError

\* C10: the root element of the rebuilt text has the name extractRootElementName
\* returns for the original text, whatever the name and the parsed tree's keys.
C10_RootNameKept ==
    /\ (rebuilt # Undefined /\ rebuilt # ParseError /\ originalXml = Undefined)
           => FirstElementName(rebuilt.v) = extractRootElementName(fileXml.v)
    /\ (sortedXml # Undefined /\ sortedXml # ParseError)
           => FirstElementName(sortedXml.v) = extractRootElementName(originalXml.v)

\* C11: the text a builder returns (buildXml in processFile, buildMetadataXml in the
\* helpers) ends with a newline, and the character before that newline is not one.
EndsWithOneNewline(s) ==
    /\ Len(s) >= 2
    /\ s[Len(s)] = "\n"
    /\ s[Len(s) - 1] # "\n"
C11_EndsWithOneNewline ==
    /\ (rebuilt # Undefined /\ rebuilt # ParseError) => EndsWithOneNewline(rebuilt.v)
    /\ (sortedXml # Undefined /\ sortedXml # ParseError) => EndsWithOneNewline(sortedXml.v)
\* a text without a final newline and one with a final newline have both been built
C11_Witness ==
    /\ rebuilt # Undefined /\ rebuilt # ParseError
    /\ sortedXml # Undefined /\ sortedXml # ParseError
    /\ originalXml.v[Len(originalXml.v)] # "\n"
    /\ EndsWithOneNewline(sortedXml.v)
    /\ EndsWithOneNewline(rebuilt.v)

\* The files the loop has passed, and the file the last processFile was given.
ProcessedFiles == { metadataFiles[i] : i \in 1..(fileIndex - 1) }
LastFile == metadataFiles[fileIndex - 1]

\* C12: processFile writes the file exactly when the hash of what it read differs from
\* the hash of what it built; a file that already holds the text built from it is
\* not written, keeps its content and is counted as unchanged, not as modified.
C12_WritesIffHashDiffers ==
    fileIndex > 1 =>
        /\ sortedXml.k = "str" =>
              /\ (LastFile \in io.written) <=> (hashString(originalXml.v) # hashString(sortedXml.v))
              /\ sortedXml = originalXml =>
                    (LastFile \notin io.written /\ disk[LastFile] = tree[LastFile])
        /\ \A f \in ProcessedFiles : (disk[f] # tree[f]) <=> (f \in io.written)
        /\ stats.modified = Cardinality(io.written)
        /\ stats.unchanged = Cardinality(ProcessedFiles \ (io.written \cup io.failed))
\* a canonical file was processed and left alone after another file was rewritten
C12_Witness ==
    /\ fileIndex = 3
    /\ sortedXml = originalXml
    /\ originalXml = Str(CanonicalFile)
    /\ stats.unchanged = 1
    /\ stats.modified = 1
    /\ metadataFiles[1] \in io.written

\* C13: a file of the batch that processFile fails on (it cannot be read, or its text
\* does not parse) keeps its content and is not written, stats.errors counts exactly
\* the failed files, and the loop goes on: when it ends, every selected file has been
\* read or attempted, and counted as processed or as an error.
Fails(f) == SortedOrError(tree[f]).k = "throw"
C13_ErrorsIsolated ==
    pc \in { "loop", "done" } =>
        /\ io.failed = { f \in ProcessedFiles : Fails(f) }
        /\ stats.errors = Cardinality(io.failed)
        /\ \A f \in io.failed : f \notin io.written /\ disk[f] = tree[f]
        /\ stats.processed = Cardinality(ProcessedFiles \ io.failed)
        /\ (pc = "done" /\ fileIndex >= 1) => ProcessedFiles = Range(metadataFiles)
\* the first file of two failed and the second was rewritten afterwards
C13_Witness ==
    /\ pc = "done"
    /\ Len(metadataFiles) = 2
    /\ metadataFiles[1] \in io.failed
    /\ tree[metadataFiles[1]] = Str(MalformedFile)
    /\ metadataFiles[2] \in io.written
    /\ stats.errors = 1 /\ stats.processed = 1

\* C14: a file whose name ends with flow-meta.xml is never selected, read, copied or
\* written, whatever the flags; and when an include type ends with flow-meta.xml the
\* constructor throws 'Invalid configuration' and no file is read or written.
IsFlowFile(p) == EndsWith(basename(p), Types.flow)
IncludesFlow == \E t \in Range(NormalizeTypes(parseArgs(argv.include))) : EndsWith(t, Types.flow)
C14_FlowNeverProcessed ==
    /\ \A p \in Range(Paths) :
          IsFlowFile(p) =>
              /\ p \notin Range(metadataFiles)
              /\ p \notin (io.read \cup io.written \cup io.failed)
              /\ disk[p] = tree[p]
              /\ disk[backupFile(p)] = Undefined
    /\ (IncludesFlow /\ pc # "start") =>
              /\ adjuster = InvalidConfiguration
              /\ pc = "exit"
              /\ io.read = {} /\ io.written = {}
              /\ disk = tree
\* a run that selects everything has rewritten a file that lies next to a flow file
C14_Witness ==
    /\ pc = "done"
    /\ argv.all /\ argv.backup /\ argv.include = Undefined
    /\ \E p \in Range(Paths) : IsFlowFile(p) /\ existsSync(tree, p)
    /\ io.written # {}

\* The files the method called looks at: those the walk of process finds, those of
\* the list given to processSpecificFiles that exist and are *-meta.xml files.
Candidates == IF call.method = "process" THEN Walked(tree) ELSE Listed(tree, call.files)
\* The exclude types the flag names, normalised; the empty value names none.
GivenExcludes ==
    NormalizeTypes(SelectSeq(parseArgs(argv.exclude), LAMBDA t : t # <<>>))

\* C15: when an exclude flag is given its types replace the default exclusions, and
\* the empty value excludes nothing: a *-meta.xml file is selected exactly when the
\* include filter accepts it, it is not always excluded and no given type matches it.
C15_ExcludeListReplacesDefaults ==
    (fileIndex >= 1 /\ argv.exclude # Undefined) =>
        \A p \in Range(Candidates) :
            (p \in Range(metadataFiles)) <=>
                /\ shouldIncludeFile(adjuster, p)
                /\ ~EndsWithAny(basename(p), alwaysExcluded)
                /\ ~EndsWithAny(basename(p), GivenExcludes)

\* The whitelist as the README lists it.
ReadmeWhitelist ==
    << Types.cls, Types.customObject, Types.field, Types.labels, Types.object,
       Types.permissionset, Types.profile, Types.settings, Types.trigger, Types.validationRule >>

\* C16: with no include flag and without --all, a *-meta.xml file is selected exactly
\* when it is not excluded and its name ends with a suffix of the README's whitelist.
C16_WhitelistSelection ==
    (fileIndex >= 1 /\ argv.include = Undefined /\ ~argv.all) =>
        \A p \in Range(Candidates) :
            (p \in Range(metadataFiles)) <=>
                /\ ~shouldExcludeFile(adjuster, p)
                /\ EndsWithAny(basename(p), ReadmeWhitelist)

\* C17: in process and in processSpecificFiles alike, stats.skipped is the number of
\* *-meta.xml files that the exclude list, the always-excluded list or the include
\* filter rejects; such a file is not selected, read, copied or written; and a file
\* that matches an include type and an exclude type is rejected.
RejectedFiles == { p \in Range(Candidates) : Rejected(adjuster, p) }
MatchesBoth(p) ==
    /\ EndsWithAny(basename(p), adjuster.includeTypes)
    /\ EndsWithAny(basename(p), adjuster.excludeTypes)
C17_RejectedSkippedOnce ==
    fileIndex >= 1 =>
        /\ stats.skipped = Cardinality(RejectedFiles)
        /\ \A p \in RejectedFiles :
              /\ p \notin Range(metadataFiles)
              /\ p \notin (io.read \cup io.written \cup io.failed)
              /\ disk[p] = tree[p]
              /\ disk[backupFile(p)] = Undefined
        /\ \A p \in Range(Candidates) : MatchesBoth(p) => p \in RejectedFiles
\* processSpecificFiles has skipped a listed file that matches the include type and
\* the exclude type, and another file
C17_Witness ==
    /\ pc = "done"
    /\ call.method = "processSpecificFiles"
    /\ \E p \in Range(Candidates) : MatchesBoth(p)
    /\ stats.skipped = 2

\* C19: when a backup is requested, process and processSpecificFiles rewrite a
\* selected file only after every selected file has been copied, with the content it
\* had, to the same relative path under the backup directory; and when the backup
\* cannot be made the run ends with no selected file rewritten.
BackedUp(f) ==
    /\ relative(backupDir, backupFile(f)) = relative(folderPath, f)
    /\ disk[backupFile(f)] = tree[f]
C19_BackupBeforeRewrite ==
    (fileIndex >= 1 /\ argv.backup) =>
        /\ pc = "loop" => \A f \in Range(metadataFiles) : BackedUp(f)
        /\ io.written # {} => \A f \in Range(metadataFiles) : BackedUp(f)
        /\ (\E f \in Range(metadataFiles) : ~BackedUp(f)) =>
              /\ pc = "exit"
              /\ io.written = {}
              /\ \A f \in Range(metadataFiles) : disk[f] = tree[f]
\* two files, one of them in a subdirectory, were copied and then rewritten
C19_Witness ==
    /\ argv.backup
    /\ pc = "done"
    /\ Len(metadataFiles) = 2
    /\ io.written = Range(metadataFiles)
    /\ \E f \in Range(metadataFiles) : Len(relative(folderPath, f)) = 2
    /\ \A f \in Range(metadataFiles) : BackedUp(f) /\ disk[f] # tree[f]

\* The .rej files under the target directory, outside .git and node_modules.
RejFilesUnderTarget ==
    { p \in Range(RejPaths) :
        /\ disk[p] # Undefined
        /\ IsUnder(p, targetDir)
        /\ EndsWith(basename(p), REJ)
        /\ \A i \in (Len(targetDir) + 1)..(Len(p) - 1) : p[i] \notin { DOT_GIT, NODE_MODULES } }

\* C18: on a directory it can read, the command reports as count the number of .rej
\* files under the target directory outside .git and node_modules, and it exits with
\* code 1 when there is at least one.
C18_CountsRejFiles ==
    (exitCode # Undefined /\ ensureDirectory(disk, targetDir) = "ok" /\ disk[SubDir] = Undefined) =>
        /\ result.count = Cardinality(RejFilesUnderTarget)
        /\ RejFilesUnderTarget # {} => exitCode = Num(1)

\* The text of the one child element of an entry with the given name (none when the
\* entry has no such child), and the flags whose text is true in any letter case.
TextOf(entry, key) ==
    IF entry.k = "obj" /\ Get(entry, key).k = "arr" THEN Get(entry, key).v[1].v ELSE <<>>
TrueTexts == { Word.true, Word.trueUpper }
RemovedNames(type) ==
    { removedItems[i].referenceKey : i \in { j \in DOMAIN removedItems : removedItems[j].type = type } }
EntriesUnder(key) == IF Get(metadata, key).k = "arr" THEN Get(metadata, key).v ELSE <<>>
Offending(entries, nameKey, flagKeys, type) ==
    SelectSeq(entries, LAMBDA e :
        /\ TextOf(e, nameKey) \in RemovedNames(type)
        /\ \E flag \in flagKeys : TextOf(e, flag) \in TrueTexts)
NamesOf(entries, nameKey) == [ i \in DOMAIN entries |-> TextOf(entries[i], nameKey) ]
IssuesOfType(issueType) == SelectSeq(issues.v, LAMBDA x : x.type = issueType)
ItemsOf(found) == [ i \in DOMAIN found |-> found[i].missingItem ]

\* C20: the issues findIntegrityIssuesInMetadata returns are, in order, one for each
\* classAccesses entry whose apexClass is a removed Apex class and whose enabled is
\* true, one for each fieldPermissions entry whose field is a removed field and whose
\* readable or editable is true, and one for each pageAccesses entry whose apexPage is
\* a removed page and whose enabled is true, each naming the entry's item and the
\* file; there is no other issue.
C20_OneIssuePerOffendingEntry ==
    issues # Undefined =>
        /\ ItemsOf(IssuesOfType("MissingApexClassReference"))
             = NamesOf(Offending(EntriesUnder(Lit.classAccesses), Lit.apexClass, { Lit.enabled },
                                 "ApexClass"), Lit.apexClass)
        /\ ItemsOf(IssuesOfType("MissingCustomFieldReference"))
             = NamesOf(Offending(EntriesUnder(Lit.fieldPermissions), Lit.field,
                                 { Word.readable, Word.editable }, "CustomField"), Lit.field)
        /\ ItemsOf(IssuesOfType("MissingVisualforcePageReference"))
             = NamesOf(Offending(EntriesUnder(Word.pageAccesses), Word.apexPage, { Lit.enabled },
                                 "VisualforcePage"), Word.apexPage)
        /\ \A i \in DOMAIN issues.v :
              /\ issues.v[i].type \in { "MissingApexClassReference", "MissingCustomFieldReference",
                                       "MissingVisualforcePageReference" }
              /\ issues.v[i].referencingFile = IntegrityFile
\* of two field permissions on a removed field, the one that grants access is reported
C20_Witness ==
    /\ issues # Undefined
    /\ Len(issues.v) = 1
    /\ issues.v[1].type = "MissingCustomFieldReference"
    /\ issues.v[1].missingItem = Word.Old
    /\ Len(EntriesUnder(Lit.fieldPermissions)) = 2
    /\ \A i \in 1..2 : TextOf(EntriesUnder(Lit.fieldPermissions)[i], Lit.field) = Word.Old

----------------------------------------------------------------------------
(* Properties of the sorter: sort keys, stability, the argument *)

Present(x, f) == IsMapping(x) /\ \E i \in 1..Len(x.v) : x.v[i][1] = f

\* The candidate fields of element x for the function that sorts: the rule's list,
\* or without a rule the one field found among x's own keys.
CandidatesOf(c, x) == IF IsMapping(x) THEN SortFields(c, x) ELSE <<>>

\* The sort key of x: the first value of the first candidate field x has (an empty
\* value counts, the key is then ''), '' when x has none of them.
FirstPresent(x, fields) == FirstOrZero({ i \in 1..Len(fields) : Present(x, fields[i]) })
KeyOfCandidate(x, fields, i) == IF i = 0 THEN <<>> ELSE FieldText(x, fields[i])
ElementKey(c, x) ==
    KeyOfCandidate(x, CandidatesOf(c, x), FirstPresent(x, CandidatesOf(c, x)))

\* The comparator of the call that reordered the sequence.
CallComparator ==
    IF op = "sortClassAccesses" THEN [fn |-> "sortClassAccesses", arrayKey |-> <<>>]
    ELSE [fn |-> "sortArrayElements", arrayKey |-> argKey.v]

WithKey(items, c, key) == SelectSeq(items, LAMBDA x : ElementKey(c, x) = key)

OrderedByKey(items, c) ==
    \A i \in 1..(Len(items) - 1) :
        ~LexLess(ElementKey(c, items[i + 1]), ElementKey(c, items[i]))

\* C21: in a sequence reordered by sortClassAccesses or sortArrayElements, the
\* elements that share a sort key (or that all lack every candidate field) come
\* out in the order they went in.
C21_EqualKeysKeepOrder ==
    op \in { "sortClassAccesses", "sortArrayElements" }
        => \A x \in Range(obj.v) :
               WithKey(ret.v, CallComparator, ElementKey(CallComparator, x))
                   = WithKey(obj.v, CallComparator, ElementKey(CallComparator, x))

\* C22: under one of the seven named context keys the result is the input
\* reordered by the first present of name, object, recordType, tab, isoCode, where
\* a present empty value is the key '' and sorts first.
C22_NamedCandidatesInOrder ==
    (op = "sortArrayElements" /\ argKey.v \in NamedArrayKeys)
        => IsReordering(obj, ret) /\ OrderedByKey(ret.v, CallComparator)

\* C23: under a context key without a rule the mappings come out ordered by the
\* key each resolves from its own keys, and the comparison used never says
\* 'greater' both ways round.
C23_GenericKeysPerElement ==
    (op = "sortArrayElements" /\ argKey.v \notin RuleContexts /\ \A x \in Range(obj.v) : IsMapping(x))
        => /\ OrderedByKey(ret.v, CallComparator)
           /\ \A a, b \in Range(obj.v) :
                  ~(Compare(CallComparator, a, b) > 0 /\ Compare(CallComparator, b, a) > 0)

\* C24: sortXmlElements leaves the tree it was given as it was: every mapping's
\* key order and every sequence's element order.
C24_ArgumentUnchanged == op = "sortXmlElements" => argAfter = obj

----------------------------------------------------------------------------
(* Properties of extractRootElementName *)

StartsAt(s, pos, pat) == pos + Len(pat) - 1 <= Len(s) /\ SubSeq(s, pos, pos + Len(pat) - 1) = pat

\* The position of the '<' of the first opening tag at or after pos, outside the
\* declaration (<? ... ?>) and the comments (<!-- ... -->) of the text; 0 when there
\* is none.
RECURSIVE OpeningTagFrom(_, _), AfterClose(_, _)
OpeningTagFrom(s, pos) ==
    IF pos = 0 \/ pos > Len(s) THEN 0
    ELSE IF StartsAt(s, pos, <<"<", "!", "-", "-">>) THEN
        AfterClose(s, EndAfter(IndexOf(s, <<"-", "-", ">">>, pos + 4), 3))
    ELSE IF StartsAt(s, pos, <<"<", "?">>) THEN
        AfterClose(s, EndAfter(IndexOf(s, <<"?", ">">>, pos + 2), 2))
    ELSE IF s[pos] = "<" /\ pos < Len(s) /\ s[pos + 1] \in NameStartChars THEN pos
    ELSE OpeningTagFrom(s, pos + 1)
AfterClose(s, next) == OpeningTagFrom(s, next)

FirstOpeningTagName(s, lt) == SubSeq(s, lt + 1, SkipWhile(s, lt + 1, NameChars) - 1)

\* C25: extractRootElementName returns the name of the first opening tag of the
\* text, the declaration and every comment skipped, and 'root' exactly when the
\* text has no opening tag.
C25_FirstOpeningTagName ==
    rootElement # Undefined
        => /\ OpeningTagFrom(xmlString.v, 1) # 0
                => rootElement.v = FirstOpeningTagName(xmlString.v, OpeningTagFrom(xmlString.v, 1))
           /\ rootElement.v = Lit.root <=> OpeningTagFrom(xmlString.v, 1) = 0

----------------------------------------------------------------------------
(* Properties of the counters *)

\* The number of files processFile has been called for.
Handed == IF fileIndex = 0 THEN 0 ELSE fileIndex - 1

CountedIn(f) ==
    << relative(folderPath, f) \in Range(stats.files),
       relative(folderPath, f) \in Range(stats.unchangedFiles),
       f \in io.failed >>

\* C29: during and after process() on a fresh adjuster and processSpecificFiles(),
\* every file handed to processFile is modified, unchanged or an error and nothing
\* else; processed = modified + unchanged; processed + errors is the number of
\* files handed over; files and unchangedFiles are as long as their counters say.
C29_CountersAddUp ==
    pc \in { "loop", "done", "exit" } /\ stats # Undefined
        => /\ \A f \in ProcessedFiles :
                  CountedIn(f) \in { <<TRUE, FALSE, FALSE>>, <<FALSE, TRUE, FALSE>>, <<FALSE, FALSE, TRUE>> }
           /\ stats.processed = stats.modified + stats.unchanged
           /\ stats.processed + stats.errors = Handed
           /\ stats.modified + stats.unchanged + stats.errors = Cardinality(ProcessedFiles)
           /\ Len(stats.files) = stats.modified
           /\ Len(stats.unchangedFiles) = stats.unchanged

C29_Witness ==
    /\ pc = "done"
    /\ call.method = "processSpecificFiles"
    /\ stats.modified = 1 /\ stats.errors = 1 /\ stats.processed = 1
    /\ Len(stats.files) = 1

----------------------------------------------------------------------------
(* Properties of run() *)

\* The git history cannot be used: a git command fails, the directory is not a
\* repository, or the clamped depth is not positive.
HistoryUnusable == GitThrows(argv.gitDepth, git) \/ actualDepth(argv.gitDepth, git) <= 0

Finished == pc \in { "returned", "done", "exit" }

\* C26: with --git-depth N > 0 and a git history that cannot be used, the command
\* does not finish without having scanned the whole directory with process().
C26_FallsBackToFullScan ==
    (Finished /\ argv.gitDepth > 0 /\ HistoryUnusable)
        => call # Undefined /\ call.method = "process"

----------------------------------------------------------------------------
(* Properties of ensureDirectory *)

Exists(dir) == isFile(disk, dir) \/ isDirectory(disk, dir)
\* The words of the message that fits the state of the path.
ExpectedWords ==
    IF ~Exists(targetDir) THEN <<"d", "o", "e", "s", " ", "n", "o", "t", " ", "e", "x", "i", "s", "t">>
    ELSE <<"n", "o", "t", " ", "a", " ", "d", "i", "r", "e", "c", "t", "o", "r", "y">>

\* C28: ensureDirectory returns normally only when the path exists and is a directory;
\* otherwise a given handler is called once with a message that contains 'does not
\* exist' or 'not a directory' and with exit code 1, and the function throws: the
\* handler's error when the handler throws, an Error with that message when the
\* handler returns or is absent.
C28_ThrowsUnlessDirectory ==
    outcome # Undefined =>
        /\ outcome.ended = "return" => Exists(targetDir) /\ isDirectory(disk, targetDir)
        /\ ~(Exists(targetDir) /\ isDirectory(disk, targetDir)) =>
              /\ outcome.ended = "throw"
              /\ onError = "absent" => outcome.calls = <<>>
              /\ onError # "absent" =>
                    /\ Len(outcome.calls) = 1
                    /\ Includes(outcome.calls[1].message, ExpectedWords)
                    /\ outcome.calls[1].exit = 1
              /\ onError # "throws" => Includes(outcome.error, ExpectedWords)
              /\ onError = "returns" => outcome.error = outcome.calls[1].message
C28_Witness ==
    /\ outcome # Undefined
    /\ onError = "returns"
    /\ Exists(targetDir) /\ ~isDirectory(disk, targetDir)
    /\ outcome.ended = "throw"

----------------------------------------------------------------------------
(* Properties of the scans of raw content *)

\* The object part and the API name of a removed field's key.
ObjectOf(fieldName) == SubSeq(fieldName, 1, LastDot(fieldName) - 1)
ApiNameOf(fieldName) == SubSeq(fieldName, LastDot(fieldName) + 1, Len(fieldName))
\* The object scopes the call was given.
GivenScopes ==
    IF source.metadataObject.k = "str" THEN { source.metadataObject.v } \ { <<>> }
    ELSE IF source.metadataObject.k = "arr" THEN { source.metadataObject.v[i].v : i \in DOMAIN source.metadataObject.v }
    ELSE {}
InScope(fieldName) == \E scope \in GivenScopes : toLowerCase(scope) = toLowerCase(ObjectOf(fieldName))
IssuesAbout(name) == { i \in DOMAIN issues.v : issues.v[i].missingItem = name }

\* C27: given one or more object scopes, findCustomFieldIssuesInContent reports no
\* removed field whose object part matches none of the scopes, letter case aside,
\* and it reports a removed field at most once.
C27_ScopedAndOnce ==
    (issues # Undefined /\ source.fn = "findCustomFieldIssuesInContent") =>
        /\ GivenScopes # {} => \A i \in DOMAIN issues.v : InScope(issues.v[i].missingItem)
        /\ \A i \in DOMAIN removedItems : Cardinality(IssuesAbout(removedItems[i].referenceKey)) <= 1
C27_Witness ==
    /\ issues # Undefined /\ source.fn = "findCustomFieldIssuesInContent"
    /\ GivenScopes # {}
    /\ \E i \in DOMAIN removedItems :
          /\ ~InScope(removedItems[i].referenceKey)
          /\ TestWord(source.rawContent, ApiNameOf(removedItems[i].referenceKey))
    /\ \E i \in DOMAIN removedItems :
          /\ InScope(removedItems[i].referenceKey)
          /\ Cardinality(IssuesAbout(removedItems[i].referenceKey)) = 1

\* The file is the class's own definition: its path is <dir>/N.cls or its content
\* declares class N, interface N or enum N (letter case aside).
Declares(content, keyword, className) ==
    \E i \in 1..Len(content) :
        /\ At(toLowerCase(content), i, keyword)
        /\ WordBoundary(content, i)
        /\ SkipWhile(content, i + Len(keyword), Whitespace) > i + Len(keyword)
        /\ AfterSpace(toLowerCase(content), i + Len(keyword), toLowerCase(className))
        /\ WordBoundary(content, SkipWhile(content, i + Len(keyword), Whitespace) + Len(className))
OwnDefinition(filePath, content, className) ==
    \/ EndsWith(toLowerCase(filePath), <<"/">> \o toLowerCase(className) \o DotCls)
    \/ \E n \in DOMAIN Keyword : Declares(content, Keyword[n], className)

\* C30: for a manually specified removed Apex class N, findIntegrityIssuesInSource
\* reports nothing about N in a file that is N's own definition, and reports N exactly
\* once in every other file whose content contains N as a whole word.
C30_ExemptIffOwnDefinition ==
    (issues # Undefined /\ source.fn = "findIntegrityIssuesInSource") =>
        \A i \in DOMAIN IndexEntries(removedItems, "ApexClass") :
            LET item == IndexEntries(removedItems, "ApexClass")[i].item
            IN  isManualRemovedItem(item) =>
                    IF OwnDefinition(source.filePath, source.rawContent, item.referenceKey)
                    THEN IssuesAbout(item.referenceKey) = {}
                    ELSE TestWord(source.rawContent, item.referenceKey) =>
                            Cardinality(IssuesAbout(item.referenceKey)) = 1

====
